---- MODULE Spec2Model ----
(***************************************************************************)
(* Model of the data-access helpers of the eshopcure storefront: the order *)
(* and booking status tables, the order and item CRUD wrappers over the    *)
(* document database, getItemsByIds, the reCAPTCHA verification and the    *)
(* Google sign-in / sign-out wrappers; and of getDerivedTransactions, the  *)
(* cart provider, the payment confirmation pages, the login page and the   *)
(* review form modal.                                                      *)
(*                                                                         *)
(* Every async function is split at its awaits: the code between two       *)
(* awaits runs atomically on the event loop, while other calls may run     *)
(* between a call's database read and its database write.                  *)
(***************************************************************************)
EXTENDS Integers, Sequences, FiniteSets, TLC

\* ------------------------------------------------------------------ bounds
\* Number of updateOrder / cancelOrder / getOrderById calls in one behaviour.
MaxOrderCalls == 2
\* Number of item and ledger calls in one behaviour.
MaxItemCalls == 2
\* Number of documents the items collection ever holds (addDoc ids 1..MaxItems).
MaxItems == 3
\* Number of calls in one behaviour of the one-call-at-a-time store specification.
MaxStoreCalls == 2
\* Longest id list getItemsByIds is called with.
MaxIdsLen == 3
\* The largest limit passed to getDerivedTransactions.
MaxLimit == 2
\* The largest quantity a cart handler is called with.
MaxQuantity == 2
\* Number of cart handler calls in one behaviour.
MaxCartOps == 3
\* Number of clearCart calls of a confirmation page's effect in one behaviour.
MaxClears == 2
\* Number of verifyPayment calls of a confirmation page in one behaviour.
MaxVerifies == 2
\* Number of checkExistingReview calls of the review modal in one behaviour.
MaxChecks == 2
\* Number of createReview calls of the review modal in one behaviour.
MaxCreates == 2
\* Number of handleSubmit calls of the login page in one behaviour.
MaxSubmits == 2
\* Number of handleGoogleSignIn calls of the login page in one behaviour.
MaxGoogleCalls == 2

\* ------------------------------------------------------------- vocabulary
\* A field that a Partial<...> argument does not carry (undefined).
Absent == "absent"

OrderStatuses ==
  {"pending", "paid", "processing", "shipped", "completed", "canceled", "refunded"}

BookingStatuses ==
  {"pending", "paid", "confirmed", "completed", "canceled", "no_show", "refunded"}

\* ------------------------------------------------- lib/utils/validation.ts
\* Faulty variant of OrderTransitions: completed is not terminal.
OrderTransitionsMutant(s) ==
  CASE s = "pending"    -> {"paid", "canceled"}
    [] s = "paid"       -> {"processing", "canceled", "refunded"}
    [] s = "processing" -> {"shipped", "canceled"}
    [] s = "shipped"    -> {"completed", "canceled"}
    [] s = "completed"  -> {"refunded"}
    [] OTHER            -> {}

\* The validTransitions record of isValidOrderStatusTransition; a status that
\* is no key of the record has no entry (validTransitions[s] is undefined).
OrderTransitions(s) ==
  CASE s = "pending"    -> {"paid", "canceled"}
    [] s = "paid"       -> {"processing", "canceled", "refunded"}
    [] s = "processing" -> {"shipped", "canceled"}
    [] s = "shipped"    -> {"completed", "canceled"}
    [] s = "completed"  -> {}
    [] s = "canceled"   -> {}
    [] s = "refunded"   -> {}
    [] OTHER            -> {}

\* The names every object literal inherits from Object.prototype. For such a
\* name validTransitions[name] is neither undefined nor an array, so
\* `validTransitions[name]?.includes(...)` calls an undefined member and throws.
InheritedProperties ==
  {"constructor", "hasOwnProperty", "isPrototypeOf", "propertyIsEnumerable",
   "toLocaleString", "toString", "valueOf", "__proto__",
   "__defineGetter__", "__defineSetter__", "__lookupGetter__", "__lookupSetter__"}

\* validTransitions[currentStatus]?.includes(newStatus) || false: "true" or
\* "false", or "TypeError" when the lookup finds an inherited member.
isValidOrderStatusTransition(currentStatus, newStatus) ==
  IF currentStatus \in InheritedProperties
    THEN "TypeError"
    ELSE IF newStatus \in OrderTransitions(currentStatus) THEN "true" ELSE "false"

\* Faulty variant of BookingTransitions: confirmed -> no_show is missing.
BookingTransitionsMutant(s) ==
  CASE s = "pending"   -> {"paid", "canceled"}
    [] s = "paid"      -> {"confirmed", "canceled", "refunded"}
    [] s = "confirmed" -> {"completed", "canceled"}
    [] OTHER           -> {}

\* The validTransitions record of isValidBookingStatusTransition.
BookingTransitions(s) ==
  CASE s = "pending"   -> {"paid", "canceled"}
    [] s = "paid"      -> {"confirmed", "canceled", "refunded"}
    [] s = "confirmed" -> {"completed", "canceled", "no_show"}
    [] s = "completed" -> {}
    [] s = "canceled"  -> {}
    [] s = "no_show"   -> {}
    [] s = "refunded"  -> {}
    [] OTHER           -> {}

isValidBookingStatusTransition(currentStatus, newStatus) ==
  IF currentStatus \in InheritedProperties
    THEN "TypeError"
    ELSE IF newStatus \in BookingTransitions(currentStatus) THEN "true" ELSE "false"

\* ------------------------------------------------------------------ state
VARIABLES
  orders,   \* the orders collection: order id -> document
  items,    \* the items collection: item id -> document
  nextItem, \* the next document id addDoc hands out
  ledger,   \* the ledger collection: entry id -> whether the document exists
  now,      \* the database server clock (serverTimestamp), ticking at every write
  ocalls,   \* the updateOrder / cancelOrder / getOrderById calls and their position
  icalls,   \* the item and ledger calls and their position
  bk,       \* one evaluation of isValidBookingStatusTransition
  gi,       \* one call of getItemsByIds
  rc,       \* one reCAPTCHA verification
  au,       \* one signInWithGoogle or signOut call and the user document
  fin,      \* the payment fields of the orders, and the bookings collection
  dt,       \* one getDerivedTransactions call
  cart,     \* the CartProvider: its items, localStorage 'cart' and the pending save effect
  vp,       \* one confirmation page: its URL, loaded document, payment state and clearCart calls
  lg,       \* the login page: its URL, the auth context, the submit in flight and where the router went
  rv        \* the review form modal: its inputs, the checks in flight, the reviews stored and the createReview calls

dbVars == <<orders, items, nextItem, ledger, now>>
\* What no order call, no item call and no booking check touches.
laterVars == <<fin, dt, cart, vp, lg, rv>>
otherVars == <<bk, gi, rc, au, laterVars>>
coreVars == <<dbVars, ocalls, icalls, bk, gi, rc, au>>
orderFrame == <<items, nextItem, ledger, icalls, otherVars>>
itemFrame == <<orders, ocalls, otherVars>>
bookingFrame == <<dbVars, ocalls, icalls, gi, rc, au, laterVars>>
giFrame == <<dbVars, ocalls, icalls, bk, rc, au, laterVars>>
rcFrame == <<dbVars, ocalls, icalls, bk, gi, au, laterVars>>
auFrame == <<dbVars, ocalls, icalls, bk, gi, rc, laterVars>>
dtFrame == <<coreVars, fin, cart, vp, lg, rv>>
cartFrame == <<coreVars, fin, dt, vp, lg, rv>>
vpFrame == <<coreVars, fin, dt, lg, rv>>
lgFrame == <<coreVars, fin, dt, cart, vp, rv>>
rvFrame == <<coreVars, fin, dt, cart, vp, lg>>
vars == <<orders, items, nextItem, ledger, now, ocalls, icalls, bk, gi, rc, au, fin, dt, cart, vp, lg, rv>>

\* ------------------------------------------------------ lib/orders/index.ts
OrderIds == {"o1", "o2"}
Notes == {"n1"}
Reasons == {"r1"}
OrderSlots == 1..MaxOrderCalls

NoOrder ==
  [exists |-> FALSE, status |-> Absent, notes |-> Absent, canceledAt |-> 0,
   canceledReason |-> Absent, updatedAt |-> 0]

\* Partial<Order>: the fields a caller of updateOrder may pass (0: no canceledAt).
OrderUpdates ==
  [status : OrderStatuses \cup {Absent}, notes : Notes \cup {Absent},
   canceledAt : {0}, canceledReason : {Absent}]

NoUpdates ==
  [status |-> Absent, notes |-> Absent, canceledAt |-> 0, canceledReason |-> Absent]

IdleCall == [op |-> "none", id |-> "o1", upd |-> NoUpdates, pc |-> "idle", result |-> "none"]

\* updateDoc(orderRef, {...updates, updatedAt: serverTimestamp()}): the fields
\* present in updates replace the document's, the others stay.
ApplyOrderUpdates(d, upd, t) ==
  [d EXCEPT
     !.status = IF upd.status = Absent THEN @ ELSE upd.status,
     !.notes = IF upd.notes = Absent THEN @ ELSE upd.notes,
     !.canceledAt = IF upd.canceledAt = 0 THEN @ ELSE upd.canceledAt,
     !.canceledReason = IF upd.canceledReason = Absent THEN @ ELSE upd.canceledReason,
     !.updatedAt = t]

Finish(c, res) == ocalls' = [ocalls EXCEPT ![c].pc = "done", ![c].result = res]

\* A caller invokes getOrderById(orderId).
GetOrderByIdCall(c, orderId) ==
  /\ ocalls[c].pc = "idle"
  /\ ocalls' = [ocalls EXCEPT ![c] =
                  [IdleCall EXCEPT !.op = "getOrderById", !.id = orderId, !.pc = "get"]]
  /\ UNCHANGED <<orders, now, orderFrame>>

\* getOrderById: await getDoc, then NotFoundError or the document.
GetOrderById(c) ==
  /\ ocalls[c].pc = "get"
  /\ IF ~orders[ocalls[c].id].exists
       THEN Finish(c, "NotFoundError")
       ELSE Finish(c, "ok")
  /\ UNCHANGED <<orders, now, orderFrame>>

\* A caller invokes updateOrder(orderId, updates).
UpdateOrderCall(c, orderId, updates) ==
  /\ ocalls[c].pc = "idle"
  /\ ocalls' = [ocalls EXCEPT ![c] =
                  [IdleCall EXCEPT !.op = "updateOrder", !.id = orderId,
                                   !.upd = updates, !.pc = "update_get"]]
  /\ UNCHANGED <<orders, now, orderFrame>>

\* Faulty variant of UpdateOrderGet: the other fields are written before the
\* transition is rejected.
UpdateOrderGetMutant(c) ==
  /\ ocalls[c].pc = "update_get"
  /\ LET call == ocalls[c]
         cur == orders[call.id]
     IN IF ~cur.exists
          THEN Finish(c, "NotFoundError") /\ UNCHANGED <<orders, now, orderFrame>>
          ELSE IF /\ call.upd.status # Absent
                  /\ call.upd.status # cur.status
                  /\ isValidOrderStatusTransition(cur.status, call.upd.status) # "true"
                 THEN /\ Finish(c, "ValidationError")
                      /\ now' = now + 1
                      /\ orders' = [orders EXCEPT ![call.id] =
                           ApplyOrderUpdates(cur, [call.upd EXCEPT !.status = Absent], now')]
                      /\ UNCHANGED orderFrame
                 ELSE /\ ocalls' = [ocalls EXCEPT ![c].pc = "update_write"]
                      /\ UNCHANGED <<orders, now, orderFrame>>

\* updateOrder up to its second await: getDoc resolves, the existence check and
\* the status validation run. A TypeError thrown by the validation leaves
\* updateOrder as it is.
UpdateOrderGet(c) ==
  /\ ocalls[c].pc = "update_get"
  /\ LET call == ocalls[c]
         cur == orders[call.id]
         valid == isValidOrderStatusTransition(cur.status, call.upd.status)
     IN IF ~cur.exists
          THEN Finish(c, "NotFoundError")
          ELSE IF call.upd.status # Absent /\ call.upd.status # cur.status
                 THEN IF valid = "TypeError"
                        THEN Finish(c, "TypeError")
                        ELSE IF valid = "false"
                               THEN Finish(c, "ValidationError")
                               ELSE ocalls' = [ocalls EXCEPT ![c].pc = "update_write"]
                 ELSE ocalls' = [ocalls EXCEPT ![c].pc = "update_write"]
  /\ UNCHANGED <<orders, now, orderFrame>>

\* updateOrder's updateDoc: the single write.
UpdateOrderWrite(c) ==
  /\ ocalls[c].pc = "update_write"
  /\ now' = now + 1
  /\ orders' = [orders EXCEPT ![ocalls[c].id] = ApplyOrderUpdates(@, ocalls[c].upd, now')]
  /\ Finish(c, "ok")
  /\ UNCHANGED orderFrame

\* A caller invokes cancelOrder(orderId, reason).
CancelOrderCall(c, orderId, reason) ==
  /\ ocalls[c].pc = "idle"
  /\ ocalls' = [ocalls EXCEPT ![c] =
                  [IdleCall EXCEPT !.op = "cancelOrder", !.id = orderId,
                                   !.upd = [NoUpdates EXCEPT !.canceledReason = reason],
                                   !.pc = "cancel_get"]]
  /\ UNCHANGED <<orders, now, orderFrame>>

\* Faulty variant of CancelOrderGet: canceledAt is not passed on.
CancelOrderGetMutant(c) ==
  /\ ocalls[c].pc = "cancel_get"
  /\ LET call == ocalls[c]
         order == orders[call.id]
     IN IF ~order.exists
          THEN Finish(c, "NotFoundError")
          ELSE IF order.status = "completed"
                 THEN Finish(c, "ValidationError")
                 ELSE IF order.status = "canceled"
                        THEN Finish(c, "ValidationError")
                        ELSE ocalls' = [ocalls EXCEPT
                               ![c].upd = [status |-> "canceled", notes |-> Absent,
                                           canceledAt |-> 0,
                                           canceledReason |-> call.upd.canceledReason],
                               ![c].pc = "update_get"]
  /\ UNCHANGED <<orders, now, orderFrame>>

\* cancelOrder up to its call of updateOrder: getOrderById resolves, the two
\* status checks run, and updateOrder is entered with status canceled,
\* canceledAt = new Date() and the reason (a reason is always passed here:
\* updateDoc does not take an undefined field value).
CancelOrderGet(c) ==
  /\ ocalls[c].pc = "cancel_get"
  /\ LET call == ocalls[c]
         order == orders[call.id]
     IN IF ~order.exists
          THEN Finish(c, "NotFoundError")
          ELSE IF order.status = "completed"
                 THEN Finish(c, "ValidationError")
                 ELSE IF order.status = "canceled"
                        THEN Finish(c, "ValidationError")
                        ELSE ocalls' = [ocalls EXCEPT
                               ![c].upd = [status |-> "canceled", notes |-> Absent,
                                           canceledAt |-> now,
                                           canceledReason |-> call.upd.canceledReason],
                               ![c].pc = "update_get"]
  /\ UNCHANGED <<orders, now, orderFrame>>

\* ------------------------------------------------------- lib/items/index.ts
ItemIds == 1..MaxItems
LedgerIds == 1..2
ItemSlots == 1..MaxItemCalls
\* Slugs and names; "" is the empty string (falsy like an absent field).
Slugs == {"s1", "s2"}
Names == {"a"}

NoItem == [exists |-> FALSE, slug |-> Absent, name |-> Absent, updatedAt |-> 0]

\* The item argument of createItem.
NewItems ==
  [name : Names \cup {""}, slug : Slugs \cup {""}, type : {"product", ""},
   businessId : {"b1", Absent}]

\* Partial<Item>: the updates argument of updateItem.
ItemUpdates ==
  [name : Names \cup {Absent}, slug : Slugs \cup {"", Absent}, type : {Absent},
   businessId : {Absent}]

NoItemInput == [name |-> Absent, slug |-> Absent, type |-> Absent, businessId |-> Absent]

IdleItemCall == [op |-> "none", id |-> 1, inp |-> NoItemInput, pc |-> "idle", result |-> "none"]

\* JavaScript truthiness of an optional string.
Truthy(x) == x # Absent /\ x # ""

\* getItemBySlug: where('slug', '==', slug), limit(1); the query's first
\* document is the one with the least id. 0 stands for null.
ItemBySlug(slug) ==
  LET found == {i \in ItemIds : items[i].exists /\ items[i].slug = slug}
  IN IF found = {} THEN 0 ELSE CHOOSE i \in found : \A j \in found : i <= j

FinishItem(c, res) == icalls' = [icalls EXCEPT ![c].pc = "done", ![c].result = res]

\* Creations started and not yet ended (each will ask addDoc for one id).
CreatesInFlight ==
  Cardinality({c \in ItemSlots : icalls[c].op = "createItem" /\ icalls[c].pc # "done"})

\* A caller invokes getItemById(itemId).
GetItemByIdCall(c, itemId) ==
  /\ icalls[c].pc = "idle"
  /\ icalls' = [icalls EXCEPT ![c] =
                  [IdleItemCall EXCEPT !.op = "getItemById", !.id = itemId, !.pc = "get"]]
  /\ UNCHANGED <<items, nextItem, ledger, now, itemFrame>>

\* getItemById: await getDoc, then NotFoundError or the document.
GetItemById(c) ==
  /\ icalls[c].pc = "get"
  /\ icalls[c].op = "getItemById"
  /\ IF ~items[icalls[c].id].exists
       THEN FinishItem(c, "NotFoundError")
       ELSE FinishItem(c, "ok")
  /\ UNCHANGED <<items, nextItem, ledger, now, itemFrame>>

\* A caller invokes getLedgerEntryById(entryId).
GetLedgerEntryByIdCall(c, entryId) ==
  /\ icalls[c].pc = "idle"
  /\ icalls' = [icalls EXCEPT ![c] =
                  [IdleItemCall EXCEPT !.op = "getLedgerEntryById", !.id = entryId,
                                       !.pc = "get"]]
  /\ UNCHANGED <<items, nextItem, ledger, now, itemFrame>>

\* getLedgerEntryById: await getDoc, then NotFoundError or the document.
GetLedgerEntryById(c) ==
  /\ icalls[c].pc = "get"
  /\ icalls[c].op = "getLedgerEntryById"
  /\ IF ~ledger[icalls[c].id]
       THEN FinishItem(c, "NotFoundError")
       ELSE FinishItem(c, "ok")
  /\ UNCHANGED <<items, nextItem, ledger, now, itemFrame>>

\* A caller invokes createItem(item): the required-field check runs before the
\* first await.
CreateItemCall(c, item) ==
  /\ icalls[c].pc = "idle"
  /\ nextItem + CreatesInFlight <= MaxItems
  /\ LET call == [IdleItemCall EXCEPT !.op = "createItem", !.inp = item]
     IN IF ~Truthy(item.name) \/ ~Truthy(item.slug) \/ ~Truthy(item.type)
          THEN icalls' = [icalls EXCEPT ![c] =
                            [call EXCEPT !.pc = "done", !.result = "ValidationError"]]
          ELSE icalls' = [icalls EXCEPT ![c] = [call EXCEPT !.pc = "create_slug"]]
  /\ UNCHANGED <<items, nextItem, ledger, now, itemFrame>>

\* createItem: getItemBySlug resolves and the conflict check runs.
CreateItemSlug(c) ==
  /\ icalls[c].pc = "create_slug"
  /\ IF ItemBySlug(icalls[c].inp.slug) # 0
       THEN FinishItem(c, "ValidationError")
       ELSE IF ~Truthy(icalls[c].inp.businessId)
              THEN icalls' = [icalls EXCEPT ![c].pc = "create_import"]
              ELSE icalls' = [icalls EXCEPT ![c].pc = "create_write"]
  /\ UNCHANGED <<items, nextItem, ledger, now, itemFrame>>

\* createItem without a businessId: await import('@/lib/businesses/utils')
\* resolves, and getBusinessId() is called, or the import rejects.
CreateItemImport(c) ==
  /\ icalls[c].pc = "create_import"
  /\ \/ icalls' = [icalls EXCEPT ![c].pc = "create_business"]
     \/ FinishItem(c, "Error")
  /\ UNCHANGED <<items, nextItem, ledger, now, itemFrame>>

\* createItem without a businessId: getBusinessId() resolves to an id or
\* rejects; a rejection leaves createItem as it was thrown.
CreateItemBusiness(c) ==
  /\ icalls[c].pc = "create_business"
  /\ \/ icalls' = [icalls EXCEPT ![c].inp.businessId = "b1", ![c].pc = "create_write"]
     \/ FinishItem(c, "Error")
  /\ UNCHANGED <<items, nextItem, ledger, now, itemFrame>>

\* createItem's addDoc: a document with a fresh id.
CreateItemWrite(c) ==
  /\ icalls[c].pc = "create_write"
  /\ nextItem <= MaxItems
  /\ now' = now + 1
  /\ items' = [items EXCEPT ![nextItem] =
                 [exists |-> TRUE, slug |-> icalls[c].inp.slug,
                  name |-> icalls[c].inp.name, updatedAt |-> now']]
  /\ nextItem' = nextItem + 1
  /\ icalls' = [icalls EXCEPT ![c].pc = "done", ![c].result = "ok", ![c].id = nextItem]
  /\ UNCHANGED <<ledger, itemFrame>>

\* A caller invokes updateItem(itemId, updates).
UpdateItemCall(c, itemId, updates) ==
  /\ icalls[c].pc = "idle"
  /\ icalls' = [icalls EXCEPT ![c] =
                  [IdleItemCall EXCEPT !.op = "updateItem", !.id = itemId,
                                       !.inp = updates, !.pc = "update_get"]]
  /\ UNCHANGED <<items, nextItem, ledger, now, itemFrame>>

\* Faulty variant of UpdateItemGet: no existence check.
UpdateItemGetMutant(c) ==
  /\ icalls[c].pc = "update_get"
  /\ IF Truthy(icalls[c].inp.slug)
       THEN icalls' = [icalls EXCEPT ![c].pc = "update_slug"]
       ELSE icalls' = [icalls EXCEPT ![c].pc = "update_write"]
  /\ UNCHANGED <<items, nextItem, ledger, now, itemFrame>>

\* updateItem: getDoc resolves and the existence check runs.
UpdateItemGet(c) ==
  /\ icalls[c].pc = "update_get"
  /\ IF ~items[icalls[c].id].exists
       THEN FinishItem(c, "NotFoundError")
       ELSE IF Truthy(icalls[c].inp.slug)
              THEN icalls' = [icalls EXCEPT ![c].pc = "update_slug"]
              ELSE icalls' = [icalls EXCEPT ![c].pc = "update_write"]
  /\ UNCHANGED <<items, nextItem, ledger, now, itemFrame>>

\* updateItem with a slug: getItemBySlug resolves and the conflict check runs.
UpdateItemSlug(c) ==
  /\ icalls[c].pc = "update_slug"
  /\ LET existing == ItemBySlug(icalls[c].inp.slug)
     IN IF existing # 0 /\ existing # icalls[c].id
          THEN FinishItem(c, "ValidationError")
          ELSE icalls' = [icalls EXCEPT ![c].pc = "update_write"]
  /\ UNCHANGED <<items, nextItem, ledger, now, itemFrame>>

\* updateItem's updateDoc: the fields present in updates replace the
\* document's; updateDoc rejects (a Firestore error) when the document is gone.
UpdateItemWrite(c) ==
  /\ icalls[c].pc = "update_write"
  /\ LET call == icalls[c]
     IN IF ~items[call.id].exists
          THEN FinishItem(c, "FirebaseError") /\ UNCHANGED <<items, now>>
          ELSE /\ now' = now + 1
               /\ items' = [items EXCEPT ![call.id] =
                    [@ EXCEPT !.slug = IF call.inp.slug = Absent THEN @ ELSE call.inp.slug,
                              !.name = IF call.inp.name = Absent THEN @ ELSE call.inp.name,
                              !.updatedAt = now']]
               /\ FinishItem(c, "ok")
  /\ UNCHANGED <<nextItem, ledger, itemFrame>>

\* A caller invokes deleteItem(itemId).
DeleteItemCall(c, itemId) ==
  /\ icalls[c].pc = "idle"
  /\ icalls' = [icalls EXCEPT ![c] =
                  [IdleItemCall EXCEPT !.op = "deleteItem", !.id = itemId,
                                       !.pc = "delete_get"]]
  /\ UNCHANGED <<items, nextItem, ledger, now, itemFrame>>

\* deleteItem: getDoc resolves and the existence check runs.
DeleteItemGet(c) ==
  /\ icalls[c].pc = "delete_get"
  /\ IF ~items[icalls[c].id].exists
       THEN FinishItem(c, "NotFoundError")
       ELSE icalls' = [icalls EXCEPT ![c].pc = "delete_write"]
  /\ UNCHANGED <<items, nextItem, ledger, now, itemFrame>>

\* deleteItem's deleteDoc (deleting a document that is gone succeeds too).
DeleteItemWrite(c) ==
  /\ icalls[c].pc = "delete_write"
  /\ items' = [items EXCEPT ![icalls[c].id] = NoItem]
  /\ FinishItem(c, "ok")
  /\ UNCHANGED <<nextItem, ledger, now, itemFrame>>

\* ---------------------------------------------- lib/items/index.ts getItemsByIds
\* The id lists getItemsByIds is called with: every list of at most MaxIdsLen ids.
IdLists == UNION {[1..n -> ItemIds] : n \in 0..MaxIdsLen}

\* The gi record of a call not yet made: given is FALSE for an absent
\* (undefined) list; fails[p] says that the getDoc of position p rejects.
GetItemsInit(g, ids, fails) ==
  gi = [given |-> g, ids |-> ids, fails |-> fails, pc |-> "idle", k |-> 1,
        fetched |-> <<>>, reads |-> 0, threw |-> FALSE, result |-> <<>>]

\* new Map(items.map(item => [item.id, item])): the ids that have an entry.
ItemsMapKeys(fetched) == {fetched[p] : p \in 1..Len(fetched)}

\* itemIds.map(id => itemsMap.get(id)).filter(item => item !== undefined)
MapAndFilter(ids, fetched) ==
  LET IsFetched(id) == id \in ItemsMapKeys(fetched)
  IN SelectSeq(ids, IsFetched)

\* getItemsByIds up to its first await: an absent or empty list returns [].
GetItemsByIdsCall ==
  /\ gi.pc = "idle"
  /\ IF ~gi.given \/ Len(gi.ids) = 0
       THEN gi' = [gi EXCEPT !.pc = "done", !.result = <<>>]
       ELSE gi' = [gi EXCEPT !.pc = "fetch"]
  /\ UNCHANGED giFrame

\* Faulty variant of GetItemsFetch: a rejected getDoc is not caught.
GetItemsFetchMutant ==
  /\ gi.pc = "fetch"
  /\ LET id == gi.ids[gi.k]
         fetched == IF ~gi.fails[gi.k] /\ items[id].exists
                      THEN Append(gi.fetched, id)
                      ELSE gi.fetched
     IN IF gi.fails[gi.k]
          THEN gi' = [gi EXCEPT !.reads = @ + 1, !.pc = "done", !.threw = TRUE]
          ELSE IF gi.k < Len(gi.ids)
                 THEN gi' = [gi EXCEPT !.k = @ + 1, !.reads = @ + 1, !.fetched = fetched]
                 ELSE gi' = [gi EXCEPT !.reads = @ + 1, !.fetched = fetched, !.pc = "done",
                                       !.result = MapAndFilter(gi.ids, fetched)]
  /\ UNCHANGED giFrame

\* One round of the loop: the getDoc of id k resolves or rejects; a found
\* document is pushed, a rejection is caught and logged. After the last id the
\* result is built from the fetched items.
GetItemsFetch ==
  /\ gi.pc = "fetch"
  /\ LET id == gi.ids[gi.k]
         fetched == IF ~gi.fails[gi.k] /\ items[id].exists
                      THEN Append(gi.fetched, id)
                      ELSE gi.fetched
     IN IF gi.k < Len(gi.ids)
          THEN gi' = [gi EXCEPT !.k = @ + 1, !.reads = @ + 1, !.fetched = fetched]
          ELSE gi' = [gi EXCEPT !.reads = @ + 1, !.fetched = fetched, !.pc = "done",
                                !.result = MapAndFilter(gi.ids, fetched)]
  /\ UNCHANGED giFrame

\* -------------------------------------------------- lib/security/recaptcha.ts
\* RECAPTCHA_SECRET_KEY: unset, empty or set.
Secrets == {Absent, "", "k1"}
Tokens == {"", "t1", "t2"}
\* What response.json() yields: a parse error, or the parsed value (null, an
\* object with success true, false or the string "true", or without success).
JsonOutcomes ==
  {"unparsable", "null", "success_true", "success_false", "success_string", "no_success"}

\* A verification not yet started: entry is "direct" for a call of
\* verifyRecaptcha(token) and "route" for a POST to the route whose body is
\* unparsable (body = "bad") or {token}.
RecaptchaInit(secret, entry, body, token) ==
  rc = [secret |-> secret, entry |-> entry, body |-> body, token |-> token,
        pc |-> "idle", calls |-> 0, fetch |-> "none", data |-> "none",
        returned |-> FALSE, threw |-> FALSE, result |-> FALSE, http |-> 0]

\* verifyRecaptcha returns v: to its caller, or to the route handler.
Return(r, v) ==
  [r EXCEPT !.returned = TRUE, !.result = v,
            !.pc = IF r.entry = "route" THEN "route_result" ELSE "done"]

\* POST up to its await of verifyRecaptcha: request.json() and the token check.
PostRoute ==
  /\ rc.pc = "idle" /\ rc.entry = "route"
  /\ IF rc.body = "bad"
       THEN rc' = [rc EXCEPT !.pc = "done", !.http = 500]
       ELSE IF ~Truthy(rc.token)
              THEN rc' = [rc EXCEPT !.pc = "done", !.http = 400]
              ELSE rc' = [rc EXCEPT !.pc = "verify"]
  /\ UNCHANGED rcFrame

\* Faulty variant of VerifyRecaptchaCall: no check of the token.
VerifyRecaptchaCallMutant ==
  /\ \/ rc.pc = "idle" /\ rc.entry = "direct"
     \/ rc.pc = "verify"
  /\ IF ~Truthy(rc.secret)
       THEN rc' = Return(rc, TRUE)
       ELSE rc' = [rc EXCEPT !.pc = "fetch"]
  /\ UNCHANGED rcFrame

\* verifyRecaptcha up to its fetch: the secret and the token checks.
VerifyRecaptchaCall ==
  /\ \/ rc.pc = "idle" /\ rc.entry = "direct"
     \/ rc.pc = "verify"
  /\ IF ~Truthy(rc.secret)
       THEN rc' = Return(rc, TRUE)
       ELSE IF ~Truthy(rc.token)
              THEN rc' = Return(rc, FALSE)
              ELSE rc' = [rc EXCEPT !.pc = "fetch"]
  /\ UNCHANGED rcFrame

\* The POST to siteverify resolves with a response (of an ok or an error HTTP
\* status, which the code does not look at) or rejects; the rejection is caught
\* and false returned.
VerifyFetch ==
  /\ rc.pc = "fetch"
  /\ \/ \E status \in {"response", "error_status"} :
          rc' = [rc EXCEPT !.calls = @ + 1, !.fetch = status, !.pc = "json"]
     \/ rc' = Return([rc EXCEPT !.calls = @ + 1, !.fetch = "failed"], FALSE)
  /\ UNCHANGED rcFrame

\* response.json() resolves or rejects; data.success === true decides (reading
\* .success of null throws inside the try and is caught).
VerifyJson ==
  /\ rc.pc = "json"
  /\ \E d \in JsonOutcomes :
       rc' = Return([rc EXCEPT !.data = d],
                    IF d \in {"unparsable", "null"} THEN FALSE ELSE d = "success_true")
  /\ UNCHANGED rcFrame

\* POST after verifyRecaptcha: 400 when the token is not valid, else 200.
PostRouteRespond ==
  /\ rc.pc = "route_result"
  /\ rc' = [rc EXCEPT !.pc = "done", !.http = IF rc.result THEN 200 ELSE 400]
  /\ UNCHANGED rcFrame

\* ------------------------------------------ lib/auth/social.ts, signout.ts
NoError == [kind |-> "none", code |-> Absent, message |-> ""]

\* What signInWithPopup and firebaseSignOut reject with.
FirebaseAuthErrors ==
  [kind : {"FirebaseError"},
   code : {"auth/popup-closed-by-user", "auth/popup-blocked", "auth/network-request-failed"},
   message : {"", "m"}]

\* What getUserByUid, createUser and updateUserByUid reject with.
UserStoreErrors ==
  [kind : {"FirebaseError", "ValidationError", "NotFoundError"}, code : {Absent},
   message : {"", "m"}]

\* firebaseUser.displayName: null, a text with no name in it, one or two names.
ProfileNames == {Absent, " ", "Ann", "Ann Lee"}

NoUser ==
  [exists |-> FALSE, role |-> Absent, firstName |-> Absent, lastName |-> Absent,
   displayName |-> Absent]

\* The user documents a sign-in may find.
StoredUsers ==
  [exists : {TRUE}, role : {"customer", "admin"}, firstName : {Absent, "Bo"},
   lastName : {Absent, "Ray"}, displayName : {Absent, "Bo Ray"}]

AuthInit(op, profile, user) ==
  au = [op |-> op, pc |-> "idle", profile |-> profile, user |-> user,
        err |-> NoError, thrown |-> NoError, result |-> "none"]

\* extractNameFromDisplayName: the first word and the rest of the display name.
ExtractNameFromDisplayName(d) ==
  CASE d = "Ann Lee" -> [firstName |-> "Ann", lastName |-> "Lee"]
    [] d = "Ann"     -> [firstName |-> "Ann", lastName |-> Absent]
    [] OTHER         -> [firstName |-> Absent, lastName |-> Absent]

\* a || b on optional strings.
OrElse(a, b) == IF Truthy(a) THEN a ELSE b

\* Faulty variant of SignInCatch: other errors are rethrown as they are.
SignInCatchMutant(e) ==
  IF e.code = "auth/popup-closed-by-user"
    THEN [kind |-> "AuthenticationError", code |-> Absent, message |-> "Sign in was cancelled"]
    ELSE IF e.code = "auth/popup-blocked"
           THEN [kind |-> "AuthenticationError", code |-> Absent,
                 message |-> "Popup was blocked. Please allow popups for this site."]
           ELSE e

\* The catch block of signInWithGoogle: what it throws for the error e.
SignInCatch(e) ==
  IF e.code = "auth/popup-closed-by-user"
    THEN [kind |-> "AuthenticationError", code |-> Absent, message |-> "Sign in was cancelled"]
    ELSE IF e.code = "auth/popup-blocked"
           THEN [kind |-> "AuthenticationError", code |-> Absent,
                 message |-> "Popup was blocked. Please allow popups for this site."]
           ELSE [kind |-> "AuthenticationError", code |-> Absent,
                 message |-> OrElse(e.message, "Failed to sign in with Google")]

\* The catch block of signOut.
SignOutCatch(e) ==
  [kind |-> "AuthenticationError", code |-> Absent,
   message |-> OrElse(e.message, "Failed to sign out")]

\* An error e raised inside the try block of signInWithGoogle.
SignInFail(e) ==
  au' = [au EXCEPT !.pc = "done", !.result = "error", !.err = e, !.thrown = SignInCatch(e)]

SignInOk == au' = [au EXCEPT !.pc = "done", !.result = "ok"]

\* A caller invokes signInWithGoogle().
SignInWithGoogleCall ==
  /\ au.pc = "idle" /\ au.op = "signInWithGoogle"
  /\ au' = [au EXCEPT !.pc = "popup"]
  /\ UNCHANGED auFrame

\* signInWithPopup resolves or rejects.
SignInPopup ==
  /\ au.pc = "popup"
  /\ \/ au' = [au EXCEPT !.pc = "lookup"]
     \/ \E e \in FirebaseAuthErrors : SignInFail(e)
  /\ UNCHANGED auFrame

\* getUserByUid resolves (or rejects): a missing user is created, an existing
\* one is updated only if a name part is missing and the profile yields one.
SignInLookup ==
  /\ au.pc = "lookup"
  /\ \/ IF ~au.user.exists
          THEN au' = [au EXCEPT !.pc = "import"]
          ELSE IF /\ (~Truthy(au.user.firstName) \/ ~Truthy(au.user.lastName))
                  /\ Truthy(au.profile)
                  /\ LET n == ExtractNameFromDisplayName(au.profile)
                     IN Truthy(n.firstName) \/ Truthy(n.lastName)
                 THEN au' = [au EXCEPT !.pc = "update"]
                 ELSE SignInOk
     \/ \E e \in UserStoreErrors : SignInFail(e)
  /\ UNCHANGED auFrame

\* await import('@/lib/users') resolves, and createUser is called, or rejects.
SignInImport ==
  /\ au.pc = "import"
  /\ \/ au' = [au EXCEPT !.pc = "create"]
     \/ \E e \in UserStoreErrors : SignInFail(e)
  /\ UNCHANGED auFrame

\* createUser resolves, with the document stored or not readable afterwards,
\* or rejects.
SignInCreate ==
  /\ au.pc = "create"
  /\ \/ LET n == ExtractNameFromDisplayName(au.profile)
        IN au' = [au EXCEPT !.pc = "relookup",
                            !.user = [exists |-> TRUE, role |-> "customer",
                                      firstName |-> n.firstName, lastName |-> n.lastName,
                                      displayName |-> OrElse(au.profile, Absent)]]
     \/ au' = [au EXCEPT !.pc = "relookup"]
     \/ \E e \in UserStoreErrors : SignInFail(e)
  /\ UNCHANGED auFrame

\* The second getUserByUid after createUser: no user throws
\* Error('Failed to create user profile').
SignInRelookup ==
  /\ au.pc = "relookup"
  /\ \/ IF au.user.exists
          THEN SignInOk
          ELSE SignInFail([kind |-> "Error", code |-> Absent,
                           message |-> "Failed to create user profile"])
     \/ \E e \in UserStoreErrors : SignInFail(e)
  /\ UNCHANGED auFrame

\* Faulty variant of SignInUpdate: the profile's first name wins over the stored one.
SignInUpdateMutant ==
  /\ au.pc = "update"
  /\ \/ LET n == ExtractNameFromDisplayName(au.profile)
        IN au' = [au EXCEPT !.pc = "reread",
                            !.user.firstName = OrElse(n.firstName, @),
                            !.user.lastName = OrElse(@, n.lastName),
                            !.user.displayName = OrElse(@, au.profile)]
     \/ \E e \in UserStoreErrors : SignInFail(e)
  /\ UNCHANGED auFrame

\* updateUserByUid resolves or rejects: missing name parts are filled in.
SignInUpdate ==
  /\ au.pc = "update"
  /\ \/ LET n == ExtractNameFromDisplayName(au.profile)
        IN au' = [au EXCEPT !.pc = "reread",
                            !.user.firstName = OrElse(@, n.firstName),
                            !.user.lastName = OrElse(@, n.lastName),
                            !.user.displayName = OrElse(@, au.profile)]
     \/ \E e \in UserStoreErrors : SignInFail(e)
  /\ UNCHANGED auFrame

\* The getUserByUid after updateUserByUid.
SignInReread ==
  /\ au.pc = "reread"
  /\ \/ SignInOk
     \/ \E e \in UserStoreErrors : SignInFail(e)
  /\ UNCHANGED auFrame

\* A caller invokes signOut().
SignOutCall ==
  /\ au.pc = "idle" /\ au.op = "signOut"
  /\ au' = [au EXCEPT !.pc = "signout"]
  /\ UNCHANGED auFrame

\* firebaseSignOut resolves or rejects.
SignOut ==
  /\ au.pc = "signout"
  /\ \/ SignInOk
     \/ \E e \in FirebaseAuthErrors :
          au' = [au EXCEPT !.pc = "done", !.result = "error", !.err = e,
                           !.thrown = SignOutCatch(e)]
  /\ UNCHANGED auFrame

\* ------------------------------ lib/items/index.ts, getDerivedTransactions
BookingIds == {"b1", "b2"}
\* Payment and creation dates (0: no date).
Dates == 1..3
\* The limits a caller passes (0: no limit).
Limits == 0..MaxLimit

\* The per-status query limit when the caller gave none.
DefaultQueryLimit == 500

SuccessfulOrderStatuses == <<"paid", "processing", "shipped", "completed">>
SuccessfulBookingStatuses == <<"paid", "confirmed", "completed">>

\* options: Absent is no entryType, 0 is no startDate, endDate or limit.
DerivedOptions ==
  [entryType : {Absent, "ORDER_SALE", "BOOKING_PAYMENT", "REFUND"},
   startDate : {0, 2}, endDate : {0, 2}, limit : Limits]

NoOptions == [entryType |-> Absent, startDate |-> 0, endDate |-> 0, limit |-> 0]

\* The payment fields of an order that has none, and a missing booking.
NoFunds == [payment |-> FALSE, paidAt |-> 0, createdAt |-> 1, refundedAt |-> 0]
NoBooking ==
  [exists |-> FALSE, status |-> Absent, payment |-> FALSE, paidAt |-> 0, createdAt |-> 1,
   refundedAt |-> 0]

DerivedInit(o, b, opts) ==
  /\ fin = [orders |-> o, bookings |-> b]
  /\ dt = [opts |-> opts, pc |-> "idle", k |-> 1, transactions |-> <<>>, result |-> <<>>,
           threw |-> FALSE]

\* options.limit ? Math.ceil(options.limit / 2) : 500
QueryLimit(limit) == IF limit # 0 THEN (limit + 1) \div 2 ELSE DefaultQueryLimit

\* The first n entries of a sequence: limit(n) of a query, slice(0, n).
Take(seq, n) == SubSeq(seq, 1, IF n < Len(seq) THEN n ELSE Len(seq))

\* orderBy('createdAt', 'desc') over the documents S.
RECURSIVE NewestFirst(_, _)
NewestFirst(S, created) ==
  IF S = {}
    THEN <<>>
    ELSE LET x == CHOOSE x \in S : \A y \in S : created[y] <= created[x]
         IN <<x>> \o NewestFirst(S \ {x}, created)

\* getOrders({status, limit}): the ids of the orders with that status, newest
\* created first, at most limit of them.
GetOrders(status, limit) ==
  Take(NewestFirst({id \in OrderIds : orders[id].exists /\ orders[id].status = status},
                   [id \in OrderIds |-> fin.orders[id].createdAt]), limit)

\* getBookings({status, limit}), the same query on the bookings collection.
GetBookings(status, limit) ==
  Take(NewestFirst({id \in BookingIds :
                      fin.bookings[id].exists /\ fin.bookings[id].status = status},
                   [id \in BookingIds |-> fin.bookings[id].createdAt]), limit)

\* payment.paidAt, else createdAt.
TransactionDate(d) == IF d.paidAt # 0 THEN d.paidAt ELSE d.createdAt

\* Faulty variant of Included: a refunded document is not skipped.
IncludedMutant(d, opts) ==
  /\ d.payment
  /\ ~(opts.startDate # 0 /\ TransactionDate(d) < opts.startDate)
  /\ ~(opts.endDate # 0 /\ TransactionDate(d) > opts.endDate)

\* The loop body's filters: a payment, no refund, the date within the range.
Included(d, opts) ==
  /\ d.payment
  /\ d.refundedAt = 0
  /\ ~(opts.startDate # 0 /\ TransactionDate(d) < opts.startDate)
  /\ ~(opts.endDate # 0 /\ TransactionDate(d) > opts.endDate)

\* The transactions pushed for the documents ids of one query result.
Pushed(ids, docs, source, entryType, opts) ==
  LET kept == SelectSeq(ids, LAMBDA id : Included(docs[id], opts))
  IN [i \in 1..Len(kept) |->
        [id |-> <<source, kept[i]>>, entryType |-> entryType, source |-> source,
         createdAt |-> TransactionDate(docs[kept[i]])]]

\* Faulty variant of SortNewestFirst: the transactions stay as pushed.
SortNewestFirstMutant(ts) ==
  ts

\* transactions.sort((a, b) => bDate - aDate): a stable sort, newest first.
RECURSIVE SortNewestFirst(_)
SortNewestFirst(ts) ==
  IF ts = <<>>
    THEN <<>>
    ELSE LET rest == SortNewestFirst(Tail(ts))
             h == Head(ts)
             n == Cardinality({i \in DOMAIN rest : rest[i].createdAt > h.createdAt})
         IN SubSeq(rest, 1, n) \o <<h>> \o SubSeq(rest, n + 1, Len(rest))

\* The sort and the slice(0, limit) the function ends with.
DerivedReturn(ts, opts) ==
  IF opts.limit # 0 THEN Take(SortNewestFirst(ts), opts.limit) ELSE SortNewestFirst(ts)

WantsOrders(opts) == opts.entryType = Absent \/ opts.entryType = "ORDER_SALE"
WantsBookings(opts) == opts.entryType = Absent \/ opts.entryType = "BOOKING_PAYMENT"

\* Where the function goes on from d: the next order status, the first or the
\* next booking status, or the sorted and sliced result.
DerivedContinue(d) ==
  IF d.pc = "orders" /\ WantsOrders(d.opts) /\ d.k <= Len(SuccessfulOrderStatuses)
    THEN d
    ELSE IF d.pc = "orders" /\ WantsBookings(d.opts)
           THEN [d EXCEPT !.pc = "bookings", !.k = 1]
           ELSE IF d.pc = "bookings" /\ d.k <= Len(SuccessfulBookingStatuses)
                  THEN d
                  ELSE [d EXCEPT !.pc = "done",
                                 !.result = DerivedReturn(d.transactions, d.opts)]

\* A caller invokes getDerivedTransactions(options).
GetDerivedTransactionsCall ==
  /\ dt.pc = "idle"
  /\ dt' = DerivedContinue([dt EXCEPT !.pc = "orders"])
  /\ UNCHANGED dtFrame

\* One await getOrders({status, limit}) resolves, and its orders are filtered
\* and pushed, or it rejects.
DerivedOrdersQuery ==
  /\ dt.pc = "orders"
  /\ \/ dt' = DerivedContinue(
               [dt EXCEPT !.k = @ + 1,
                          !.transactions =
                             @ \o Pushed(GetOrders(SuccessfulOrderStatuses[dt.k],
                                                   QueryLimit(dt.opts.limit)),
                                         fin.orders, "order", "ORDER_SALE", dt.opts)])
     \/ dt' = [dt EXCEPT !.pc = "done", !.threw = TRUE]
  /\ UNCHANGED dtFrame

\* One await getBookings({status, limit}) resolves, and its bookings are
\* filtered and pushed, or it rejects.
DerivedBookingsQuery ==
  /\ dt.pc = "bookings"
  /\ \/ dt' = DerivedContinue(
               [dt EXCEPT !.k = @ + 1,
                          !.transactions =
                             @ \o Pushed(GetBookings(SuccessfulBookingStatuses[dt.k],
                                                     QueryLimit(dt.opts.limit)),
                                         fin.bookings, "booking", "BOOKING_PAYMENT", dt.opts)])
     \/ dt' = [dt EXCEPT !.pc = "done", !.threw = TRUE]
  /\ UNCHANGED dtFrame

\* --------------------------------------------- contexts/CartContext.tsx
ProductIds == {"p1", "p2"}
Quantities == 1..MaxQuantity

\* A Firestore Timestamp, as a document read gives it for createdAt and
\* updatedAt: an instance of the class with its seconds and nanoseconds.
Timestamp(seconds, nanoseconds) ==
  [type |-> "Timestamp", seconds |-> seconds, nanoseconds |-> nanoseconds]

\* The products a page hands to addItem: Items read from Firestore as
\* { id: doc.id, ...doc.data() }. createdAt stands for the Timestamp fields.
Products == {[id |-> p, createdAt |-> Timestamp(1, 0)] : p \in ProductIds}
\* selectedVariants: undefined or a variant choice.
Variants == {Absent, "v1"}

\* localStorage 'cart': no entry, a text JSON.parse rejects, or saved JSON.
NoEntry == [kind |-> "none", text |-> <<>>]
BadEntry == [kind |-> "bad", text |-> <<>>]

\* The provider mounted with the storage entry e: the items useState loads
\* from it, and the save effect of the first render still to run. strictMode
\* says whether React runs a development build in StrictMode, where it
\* invokes every state updater twice on the same previous state.
CartInit(e, loaded, strictMode) ==
  cart = [items |-> loaded, storage |-> e, dirty |-> TRUE, ops |-> 0,
          strictMode |-> strictMode]

\* What JSON.stringify writes for a product: its id, and for a Timestamp
\* (through its toJSON) or a plain object the seconds and nanoseconds it
\* holds. The text does not say which of the two the value was.
StringifyProduct(product) ==
  [id |-> product.id,
   createdAt |-> [seconds |-> product.createdAt.seconds,
                  nanoseconds |-> product.createdAt.nanoseconds]]

\* What JSON.parse builds for a product: every object of the text becomes a
\* plain object, never an instance of a class.
ParseProduct(text) ==
  [id |-> text.id,
   createdAt |-> [type |-> "Object", seconds |-> text.createdAt.seconds,
                  nanoseconds |-> text.createdAt.nanoseconds]]


\* JSON.stringify(items): each line's keys with their values; a key whose
\* value is undefined is left out.
Stringify(lines) ==
  [i \in 1..Len(lines) |->
     IF lines[i].selectedVariants = Absent
       THEN [product |-> StringifyProduct(lines[i].product),
             quantity |-> lines[i].quantity]
       ELSE [product |-> StringifyProduct(lines[i].product),
             quantity |-> lines[i].quantity,
             selectedVariants |-> lines[i].selectedVariants]]

\* JSON.parse(savedCart): the lines with the keys the text holds; reading a
\* key that is not there gives undefined.
Parse(text) ==
  [i \in 1..Len(text) |->
     [product |-> ParseProduct(text[i]["product"]), quantity |-> text[i]["quantity"],
      selectedVariants |-> IF "selectedVariants" \in DOMAIN text[i]
                             THEN text[i]["selectedVariants"]
                             ELSE Absent]]

\* The useState initialiser: no entry and an unparsable entry give [].
LoadCart(e) == IF e.kind = "json" THEN Parse(e.text) ELSE <<>>

\* prevItems.findIndex(item => item.product.id === id): 0 stands for -1.
FindIndex(lines, id) ==
  IF \E i \in DOMAIN lines : lines[i].product.id = id
    THEN CHOOSE i \in DOMAIN lines :
           lines[i].product.id = id
             /\ \A j \in DOMAIN lines : lines[j].product.id = id => i <= j
    ELSE 0

\* setItems(...) of a handler: the new items, and a render whose save effect
\* is to run.
SetItems(lines) ==
  cart' = [cart EXCEPT !.items = lines, !.dirty = TRUE, !.ops = @ + 1]

\* Faulty variant of AddItem: a line is appended also for a product in the cart.
AddItemMutant(product, quantity, variants) ==
  /\ cart.ops < MaxCartOps
  /\ SetItems(Append(cart.items,
                     [product |-> product, quantity |-> quantity,
                      selectedVariants |-> variants]))
  /\ UNCHANGED cartFrame

\* addItem(product, quantity, variants). The updater adds to the quantity of
\* the previous state's own line object (newItems is a shallow copy), so every
\* invocation of the updater adds once more to the line the new state holds.
AddItem(product, quantity, variants) ==
  /\ cart.ops < MaxCartOps
  /\ LET existingItemIndex == FindIndex(cart.items, product.id)
         invocations == IF cart.strictMode THEN 2 ELSE 1
     IN IF existingItemIndex > 0
          THEN SetItems([cart.items EXCEPT
                           ![existingItemIndex].quantity = @ + invocations * quantity])
          ELSE SetItems(Append(cart.items,
                               [product |-> product, quantity |-> quantity,
                                selectedVariants |-> variants]))
  /\ UNCHANGED cartFrame

\* prevItems.filter(item => item.product.id !== productId)
Without(lines, productId) == SelectSeq(lines, LAMBDA l : l.product.id # productId)

\* removeItem(productId)
RemoveItem(productId) ==
  /\ cart.ops < MaxCartOps
  /\ SetItems(Without(cart.items, productId))
  /\ UNCHANGED cartFrame

\* updateQuantity(productId, quantity): a quantity <= 0 removes the line.
UpdateQuantity(productId, quantity) ==
  /\ cart.ops < MaxCartOps
  /\ IF quantity <= 0
       THEN SetItems(Without(cart.items, productId))
       ELSE SetItems([i \in 1..Len(cart.items) |->
                        IF cart.items[i].product.id = productId
                          THEN [cart.items[i] EXCEPT !.quantity = quantity]
                          ELSE cart.items[i]])
  /\ UNCHANGED cartFrame

\* What clearCart() leaves: setItems([]), a new array and so a render whose
\* save effect is to run, and localStorage.removeItem('cart').
Cleared(c) == [c EXCEPT !.items = <<>>, !.storage = NoEntry, !.dirty = TRUE]

\* Faulty variant of ClearCart: the saved cart is removed and the items in
\* memory are left as they are.
ClearCartMutant ==
  /\ cart.ops < MaxCartOps
  /\ cart' = [cart EXCEPT !.storage = NoEntry, !.ops = @ + 1]
  /\ UNCHANGED cartFrame

\* clearCart() called by a page.
ClearCart ==
  /\ cart.ops < MaxCartOps
  /\ cart' = [Cleared(cart) EXCEPT !.ops = @ + 1]
  /\ UNCHANGED cartFrame

\* The save effect after a render with new items:
\* localStorage.setItem('cart', JSON.stringify(items)).
SaveEffect ==
  /\ cart.dirty
  /\ cart' = [cart EXCEPT !.storage = [kind |-> "json", text |-> Stringify(cart.items)],
                          !.dirty = FALSE]
  /\ UNCHANGED cartFrame

\* ------- BookConfirmedPageClient, BookConfirmedPage, OrderConfirmedPageClient
ConfirmationPages == {"BookConfirmedPageClient", "BookConfirmedPage", "OrderConfirmedPageClient"}

\* The parsed body of the verify endpoint's answer: data is the body's data
\* object (hasData) with its status; a body without data has no status to
\* read, which "pending" stands for.
VerifyResults ==
  {r \in [success : BOOLEAN, hasData : BOOLEAN,
          status : {"success", "failed", "pending", "abandoned"},
          message : {Absent, "", "m"}] : ~r.hasData => r.status = "pending"}

NoResult == [success |-> FALSE, hasData |-> FALSE, status |-> "pending", message |-> Absent]

\* One finished verifyPayment call: whether its response was OK, the parsed
\* body, and whether it ended in the catch block.
NoCall == [ok |-> FALSE, result |-> NoResult, threw |-> FALSE]

\* The page opened with ?txRef (or without), for a booking or order stored
\* with the status stored (Absent: there is no such document). Of the
\* verifyPayment calls, fetching counts those awaiting fetch and parsing[ok]
\* those awaiting response.json() of a response that was OK or not; last is
\* the call that finished last.
ConfirmInit(page, txRef, stored) ==
  vp = [page |-> page, txRef |-> txRef, stored |-> stored, doc |-> Absent,
        loadedFor |-> "never", loads |-> 0,
        calls |-> 0, fetching |-> 0, parsing |-> [ok \in BOOLEAN |-> 0],
        finished |-> 0, last |-> NoCall,
        paymentStatus |-> Absent, paymentError |-> Absent, cleared |-> 0]

\* isPaymentSuccessful
IsPaymentSuccessful(v) ==
  v.paymentStatus = "success" \/ (v.txRef = Absent /\ v.doc = "paid")

\* The load effect calls loadBooking() / loadOrder() up to its getDoc. It runs
\* after the first render; on OrderConfirmedPageClient its dependencies are
\* [orderId, isPaymentSuccessful], so it runs again after every render that
\* changed isPaymentSuccessful (loadedFor is the value it last ran for).
LoadEffect ==
  /\ LET successful == IF IsPaymentSuccessful(vp) THEN "true" ELSE "false"
     IN /\ \/ vp.loadedFor = "never"
           \/ vp.page = "OrderConfirmedPageClient" /\ vp.loadedFor # successful
        /\ vp' = [vp EXCEPT !.loadedFor = successful, !.loads = @ + 1]
  /\ UNCHANGED <<cart, vpFrame>>

\* loadBooking / loadOrder: getDoc resolves and the document, if it exists,
\* becomes the page's booking or order; or getDoc rejects.
LoadDocument ==
  /\ vp.loads > 0
  /\ \/ vp' = [vp EXCEPT !.loads = @ - 1,
                         !.doc = IF vp.stored = Absent THEN @ ELSE vp.stored]
     \/ vp' = [vp EXCEPT !.loads = @ - 1]
  /\ UNCHANGED <<cart, vpFrame>>

\* Faulty variant of ClearCartEffect: the txRef is not looked at.
ClearCartEffectMutant ==
  /\ vp.cleared < MaxClears
  /\ vp.doc = "paid"
  /\ vp' = [vp EXCEPT !.cleared = @ + 1]
  /\ cart' = Cleared(cart)
  /\ UNCHANGED vpFrame

\* The effect on [isPaymentSuccessful, status, txRef, clearCart] calls
\* clearCart(). clearCart is a new function in every render of the provider,
\* and clearCart() makes the provider render, so the effect runs again after
\* every call for as long as its condition holds.
ClearCartEffect ==
  /\ vp.cleared < MaxClears
  /\ IsPaymentSuccessful(vp) /\ vp.txRef = Absent /\ vp.doc = "paid"
  /\ vp' = [vp EXCEPT !.cleared = @ + 1]
  /\ cart' = Cleared(cart)
  /\ UNCHANGED vpFrame

\* PaymentConfirmation calls onVerifyPayment(ref): verifyPayment up to its
\* fetch. Nothing in verifyPayment looks at the page's txRef or at a call
\* that is still waiting.
VerifyPaymentCall ==
  /\ vp.calls < MaxVerifies
  /\ vp' = [vp EXCEPT !.calls = @ + 1, !.fetching = @ + 1]
  /\ UNCHANGED <<cart, vpFrame>>

\* The catch block of verifyPayment, for a call taken out of v whose
\* response, if it had one, was OK or not.
VerifyPaymentCatch(v, ok) ==
  [v EXCEPT !.finished = @ + 1,
            !.last = [ok |-> ok, result |-> NoResult, threw |-> TRUE],
            !.paymentStatus = "pending",
            !.paymentError = "Failed to verify payment status"]

\* await fetch(...) of one call resolves with a response, OK or not, or
\* rejects.
VerifyPaymentFetch ==
  /\ vp.fetching > 0
  /\ LET v == [vp EXCEPT !.fetching = @ - 1]
     IN \/ \E ok \in BOOLEAN : vp' = [v EXCEPT !.parsing[ok] = @ + 1]
        \/ vp' = VerifyPaymentCatch(v, FALSE)
  /\ UNCHANGED <<cart, vpFrame>>

\* result.data.status === 'success' ? 'success'
\*   : result.data.status === 'failed' ? 'failed' : 'pending'
StatusOf(dataStatus) ==
  IF dataStatus = "success" THEN "success"
  ELSE IF dataStatus = "failed" THEN "failed" ELSE "pending"

\* Faulty variant of VerifyPaymentJson: an answer that is not OK is taken
\* like an OK one.
VerifyPaymentJsonMutant ==
  \E ok \in BOOLEAN :
    /\ vp.parsing[ok] > 0
    /\ LET v == [vp EXCEPT !.parsing[ok] = @ - 1]
       IN \/ \E result \in VerifyResults :
               LET call == [ok |-> ok, result |-> result, threw |-> FALSE]
               IN IF result.success /\ result.hasData
                    THEN /\ vp' = [v EXCEPT !.finished = @ + 1, !.last = call,
                                            !.paymentStatus = StatusOf(result.status),
                                            !.cleared = IF StatusOf(result.status) = "success"
                                                          THEN @ + 1 ELSE @]
                         /\ cart' = IF StatusOf(result.status) = "success"
                                      THEN Cleared(cart) ELSE cart
                    ELSE /\ vp' = [v EXCEPT !.finished = @ + 1, !.last = call,
                                            !.paymentStatus = "pending",
                                            !.paymentError =
                                               OrElse(result.message,
                                                      "Unable to verify payment status")]
                         /\ UNCHANGED cart
          \/ vp' = VerifyPaymentCatch(v, ok) /\ UNCHANGED cart
    /\ UNCHANGED vpFrame

\* await response.json() of one call resolves with the body, and the status
\* and the error are set from it and, for a verified payment, clearCart() is
\* called; or it rejects, or the body has no properties to read (null), and
\* the catch block runs.
VerifyPaymentJson ==
  \E ok \in BOOLEAN :
    /\ vp.parsing[ok] > 0
    /\ LET v == [vp EXCEPT !.parsing[ok] = @ - 1]
       IN \/ \E result \in VerifyResults :
               LET call == [ok |-> ok, result |-> result, threw |-> FALSE]
               IN IF ok /\ result.success /\ result.hasData
                    THEN /\ vp' = [v EXCEPT !.finished = @ + 1, !.last = call,
                                            !.paymentStatus = StatusOf(result.status),
                                            !.cleared = IF StatusOf(result.status) = "success"
                                                          THEN @ + 1 ELSE @]
                         /\ cart' = IF StatusOf(result.status) = "success"
                                      THEN Cleared(cart) ELSE cart
                    ELSE /\ vp' = [v EXCEPT !.finished = @ + 1, !.last = call,
                                            !.paymentStatus = "pending",
                                            !.paymentError =
                                               OrElse(result.message,
                                                      "Unable to verify payment status")]
                         /\ UNCHANGED cart
          \/ vp' = VerifyPaymentCatch(v, ok) /\ UNCHANGED cart
    /\ UNCHANGED vpFrame

\* ------------------------------------------------------- LoginPageClient
UserRoles == {"ADMIN", "STAFF", "CUSTOMER"}
\* ?returnUrl: none, one isValidReturnUrl accepts, one it rejects.
ReturnUrls == {Absent, "/orders", "//evil"}

\* isValidReturnUrl: a path of this site.
IsValidReturnUrl(u) == u = "/orders"

\* What signIn rejects with: an Error with its message (which may be empty),
\* or a value that is no Error.
SignInRejections ==
  {[isError |-> TRUE, message |-> "Invalid email or password"],
   [isError |-> TRUE, message |-> ""],
   [isError |-> FALSE, message |-> Absent]}

\* What signInWithGoogle rejects with: the AuthenticationError its catch block
\* throws for whatever was raised inside its try block.
GoogleRejections ==
  {[isError |-> TRUE, message |-> SignInCatch(e).message] :
     e \in FirebaseAuthErrors \cup UserStoreErrors \cup
           {[kind |-> "Error", code |-> Absent, message |-> "Failed to create user profile"]}}

\* err instanceof Error ? err.message : fallback
ErrorMessage(err, fallback) == IF err.isError THEN err.message ELSE fallback

\* The login page opened with ?from (admin or not) and ?returnUrl by the
\* account acct (its role, whether its email is verified), logged in already
\* (the auth context then delivers the user) or not; env says whether the
\* build is a production one (a development one otherwise) and whether a
\* reCAPTCHA site key is configured, grecaptcha whether the reCAPTCHA script
\* has loaded (window.grecaptcha). subs counts the handleSubmit calls
\* waiting at each of their awaits, google the handleGoogleSignIn calls
\* waiting for signInWithGoogle, timers the armed /admin timers, calls the
\* calls of the two handlers so far.
LoginInit(fromAdmin, returnUrl, acct, loggedIn, env, grecaptcha) ==
  lg = [fromAdmin |-> fromAdmin, returnUrl |-> returnUrl, acct |-> acct, env |-> env,
        grecaptcha |-> grecaptcha,
        session |-> loggedIn, user |-> FALSE, userRole |-> Absent, isLoading |-> FALSE,
        recaptchaToken |-> FALSE,
        subs |-> [recaptcha |-> 0, signIn |-> 0, sendEmail |-> 0],
        google |-> 0, timers |-> 0, calls |-> [submit |-> 0, google |-> 0],
        error |-> "", location |-> "/login"]

\* The auth context delivers the signed-in user, the role still unknown.
AuthUserChanged ==
  /\ lg.session /\ ~lg.user
  /\ lg' = [lg EXCEPT !.user = TRUE]
  /\ UNCHANGED lgFrame

\* The auth context delivers the user's role.
AuthRoleChanged ==
  /\ lg.user /\ lg.userRole = Absent
  /\ lg' = [lg EXCEPT !.userRole = lg.acct.role]
  /\ UNCHANGED lgFrame

\* The redirect effect of a render with a user and isLoading false.
RedirectEffect ==
  /\ lg.location = "/login" /\ lg.user /\ ~lg.isLoading
  /\ IF lg.fromAdmin
       THEN /\ lg.userRole \in {"ADMIN", "STAFF"}
            /\ lg' = [lg EXCEPT !.location = "/admin"]
       ELSE IF Truthy(lg.returnUrl) /\ IsValidReturnUrl(lg.returnUrl)
              THEN lg' = [lg EXCEPT !.location = lg.returnUrl]
              ELSE lg' = [lg EXCEPT !.location = "/"]
  /\ UNCHANGED lgFrame

\* The rate-limit effect of a typed email: the check answers OK and locked,
\* with a message or without one.
RateLimitEffect ==
  /\ lg.location = "/login"
  /\ \E message \in {Absent, "", "Too many attempts"} :
       lg' = [lg EXCEPT !.error = OrElse(message, "Account is temporarily locked")]
  /\ UNCHANGED lgFrame

\* The script the Recaptcha component appended loads: script.onload.
RecaptchaScriptLoaded ==
  /\ lg.location = "/login" /\ lg.env.siteKey /\ ~lg.grecaptcha
  /\ lg' = [lg EXCEPT !.grecaptcha = TRUE]
  /\ UNCHANGED lgFrame

\* The Recaptcha component calls onVerify(token): without a site key its
\* effect passes 'dev-token' in a development build; with one, the token
\* grecaptcha.execute resolved with, once the script is there. The effect runs
\* again after every render of the page (onVerify is a new function each
\* time), so the call can come at any time and more than once.
HandleRecaptchaVerify ==
  /\ lg.location = "/login"
  /\ IF lg.env.siteKey THEN lg.grecaptcha ELSE ~lg.env.production
  /\ lg' = [lg EXCEPT !.recaptchaToken = TRUE]
  /\ UNCHANGED lgFrame

\* The Recaptcha component calls onError(error) when grecaptcha.execute
\* rejected: the error shows in a production build only.
HandleRecaptchaError ==
  /\ lg.location = "/login" /\ lg.env.siteKey /\ lg.grecaptcha
  /\ IF lg.env.production
       THEN lg' = [lg EXCEPT !.error =
                     "Security verification failed. Please refresh and try again."]
       ELSE UNCHANGED lg
  /\ UNCHANGED lgFrame

\* The form is submitted: handleSubmit up to its first await, the reCAPTCHA
\* execution when there is no token yet and reCAPTCHA is there, else signIn.
\* Nothing in handleSubmit keeps it from running while an earlier call waits.
HandleSubmitCall ==
  /\ lg.location = "/login" /\ lg.calls.submit < MaxSubmits
  /\ IF ~lg.recaptchaToken /\ lg.env.siteKey /\ lg.grecaptcha
       THEN lg' = [lg EXCEPT !.subs.recaptcha = @ + 1, !.calls.submit = @ + 1,
                             !.error = "", !.isLoading = TRUE]
       ELSE lg' = [lg EXCEPT !.subs.signIn = @ + 1, !.calls.submit = @ + 1,
                             !.error = "", !.isLoading = TRUE]
  /\ UNCHANGED lgFrame

\* grecaptcha.execute of one handleSubmit call resolves with a token, which
\* is kept, or rejects; handleSubmit goes on to signIn either way.
HandleSubmitRecaptcha ==
  /\ lg.subs.recaptcha > 0
  /\ \/ lg' = [lg EXCEPT !.subs.recaptcha = @ - 1, !.subs.signIn = @ + 1,
                         !.recaptchaToken = TRUE]
     \/ lg' = [lg EXCEPT !.subs.recaptcha = @ - 1, !.subs.signIn = @ + 1]
  /\ UNCHANGED lgFrame

\* signIn of one handleSubmit call resolves, and handleSubmit sends the
\* verification email to an unverified user, arms the /admin timer or pushes
\* the return URL or '/'; or signIn rejects and the catch block shows the
\* error.
HandleSubmitSignIn ==
  /\ lg.subs.signIn > 0
  /\ \/ IF ~lg.acct.emailVerified
          THEN lg' = [lg EXCEPT !.subs.signIn = @ - 1, !.subs.sendEmail = @ + 1,
                                !.session = TRUE]
          ELSE IF lg.fromAdmin
                 THEN lg' = [lg EXCEPT !.subs.signIn = @ - 1, !.session = TRUE,
                                       !.timers = @ + 1]
                 ELSE IF Truthy(lg.returnUrl) /\ IsValidReturnUrl(lg.returnUrl)
                        THEN lg' = [lg EXCEPT !.subs.signIn = @ - 1, !.session = TRUE,
                                              !.location = lg.returnUrl]
                        ELSE lg' = [lg EXCEPT !.subs.signIn = @ - 1, !.session = TRUE,
                                              !.location = "/"]
     \/ \E err \in SignInRejections :
          lg' = [lg EXCEPT !.subs.signIn = @ - 1, !.isLoading = FALSE,
                           !.error = ErrorMessage(err,
                              "Failed to sign in. Please check your credentials.")]
  /\ UNCHANGED lgFrame

\* sendVerificationEmail resolves or rejects: the user goes to /verify.
HandleSubmitSendEmail ==
  /\ lg.subs.sendEmail > 0
  /\ lg' = [lg EXCEPT !.subs.sendEmail = @ - 1, !.location = "/verify?from=login"]
  /\ UNCHANGED lgFrame

\* A setTimeout(() => router.push('/admin'), 100) of handleSubmit fires.
AdminTimer ==
  /\ lg.timers > 0
  /\ lg' = [lg EXCEPT !.timers = @ - 1, !.location = "/admin"]
  /\ UNCHANGED lgFrame

\* 'Login with Google' is clicked: handleGoogleSignIn up to
\* await signInWithGoogle().
HandleGoogleSignInCall ==
  /\ lg.location = "/login" /\ lg.calls.google < MaxGoogleCalls
  /\ lg' = [lg EXCEPT !.google = @ + 1, !.calls.google = @ + 1,
                      !.error = "", !.isLoading = TRUE]
  /\ UNCHANGED lgFrame

\* signInWithGoogle resolves, and the return URL or '/' is pushed, or it
\* rejects and the error shows; isLoading is false afterwards either way.
HandleGoogleSignIn ==
  /\ lg.google > 0
  /\ \/ lg' = [lg EXCEPT !.google = @ - 1, !.session = TRUE, !.isLoading = FALSE,
                         !.location = IF Truthy(lg.returnUrl) /\ IsValidReturnUrl(lg.returnUrl)
                                        THEN lg.returnUrl ELSE "/"]
     \/ \E err \in GoogleRejections :
          lg' = [lg EXCEPT !.google = @ - 1, !.isLoading = FALSE,
                           !.error = ErrorMessage(err, "Failed to sign up with Google.")]
  /\ UNCHANGED lgFrame

\* ---------------------------- components/products/ProductCard.tsx, ReviewFormModal
ReviewItems == {"i1", "i2"}
\* What a guest types as email: nothing, an address in two spellings, no address.
Emails == {"", "a@x.io", "A@x.io", "bad"}
\* What is typed as comment and as name.
Comments == {"", "c"}
UserNames == {"", "n"}

\* email.toLowerCase().trim()
NormaliseEmail(e) == IF e = "A@x.io" THEN "a@x.io" ELSE e

\* /^[^\s@]+@[^\s@]+\.[^\s@]+$/.test(userEmail)
IsEmail(e) == e \in {"a@x.io", "A@x.io"}

\* The reviews stored: who (a user id or a guest's email) reviewed which item.
ReviewKeys == {"u1", "a@x.io"} \X ReviewItems

\* hasUserReviewed({userId, userEmail, itemId, businessId, reviewType}): a
\* review of the item by that user id or, for a guest, by that email exists.
HasUserReviewed(reviews, userId, userEmail, itemId) ==
  <<IF userId # Absent THEN userId ELSE userEmail, itemId>> \in reviews

\* The modal mounted closed for the user (Absent: a guest) with the e-mail
\* address and display name of the user's account ("": none): the form's
\* comment is empty, its name and email fields start from the account's.
\* creating holds the reviewData of the createReview calls not yet settled,
\* closing says that the effect of a close made by handleSubmit is still to
\* run.
ReviewInit(user, email, displayName, reviews) ==
  rv = [isOpen |-> FALSE, user |-> user, email |-> email, userEmail |-> email,
        userName |-> displayName, comment |-> "", itemId |-> "i1",
        hasExistingReview |-> FALSE, isCheckingReview |-> FALSE, checks |-> <<>>,
        started |-> 0, creating |-> <<>>, submits |-> 0, closing |-> FALSE,
        reviews |-> reviews, calls |-> {}]

\* The effect on [isOpen, user?.uid, itemId, ...] for the modal r: an open
\* modal runs checkExistingReview up to its await, a closed one resets
\* hasExistingReview.
CheckEffect(r) ==
  IF r.isOpen
    THEN IF r.user = Absent /\ r.userEmail = ""
           THEN [r EXCEPT !.hasExistingReview = FALSE]
           ELSE [r EXCEPT !.isCheckingReview = TRUE, !.started = @ + 1,
                          !.checks = Append(@, [userId |-> r.user,
                                                userEmail |->
                                                  NormaliseEmail(OrElse(r.email, r.userEmail)),
                                                itemId |-> r.itemId])]
    ELSE [r EXCEPT !.hasExistingReview = FALSE]

\* The parent opens the modal for an item. (A render of the parent comes
\* after the effects of the render before it.)
OpenModal(itemId) ==
  /\ ~rv.isOpen /\ ~rv.closing /\ rv.started < MaxChecks
  /\ rv' = CheckEffect([rv EXCEPT !.isOpen = TRUE, !.itemId = itemId])
  /\ UNCHANGED rvFrame

\* The parent's onClose (the Cancel button, the Modal's close): isOpen is
\* false and the effect runs for the closed modal; the form keeps its fields.
CloseModal ==
  /\ rv.isOpen
  /\ rv' = CheckEffect([rv EXCEPT !.isOpen = FALSE])
  /\ UNCHANGED rvFrame

\* The parent shows another item in the open modal.
ChangeItem(itemId) ==
  /\ rv.isOpen /\ itemId # rv.itemId /\ rv.started < MaxChecks
  /\ rv' = CheckEffect([rv EXCEPT !.itemId = itemId])
  /\ UNCHANGED rvFrame

\* The comment field's onChange: setComment(e.target.value).
TypeComment(c) ==
  /\ rv.isOpen /\ c # rv.comment
  /\ rv' = [rv EXCEPT !.comment = c]
  /\ UNCHANGED rvFrame

\* A guest types into the name field: setUserName(e.target.value).
TypeName(n) ==
  /\ rv.isOpen /\ rv.user = Absent /\ n # rv.userName
  /\ rv' = [rv EXCEPT !.userName = n]
  /\ UNCHANGED rvFrame

\* A guest types into the email field: setUserEmail(e.target.value).
TypeEmail(e) ==
  /\ rv.isOpen /\ rv.user = Absent /\ e # rv.userEmail
  /\ rv' = [rv EXCEPT !.userEmail = e]
  /\ UNCHANGED rvFrame

\* seq without its k-th element.
RemoveAt(seq, k) ==
  [i \in 1..(Len(seq) - 1) |-> IF i < k THEN seq[i] ELSE seq[i + 1]]

\* One hasUserReviewed call of checkExistingReview resolves, or rejects.
CheckExistingReviewReturns ==
  /\ \E k \in DOMAIN rv.checks :
       LET c == rv.checks[k]
       IN \/ rv' = [rv EXCEPT !.checks = RemoveAt(@, k), !.isCheckingReview = FALSE,
                              !.hasExistingReview =
                                 HasUserReviewed(rv.reviews, c.userId, c.userEmail, c.itemId)]
          \/ rv' = [rv EXCEPT !.checks = RemoveAt(@, k), !.isCheckingReview = FALSE,
                              !.hasExistingReview = FALSE]
  /\ UNCHANGED rvFrame

\* The form is submitted: handleSubmit up to await createReview.mutateAsync,
\* which is called with the reviewData built from the form as it is now.
\* handleSubmit looks neither at a pending createReview nor at a pending check.
HandleSubmit ==
  /\ rv.isOpen /\ rv.submits < MaxCreates
  /\ ~rv.hasExistingReview
  /\ rv.comment # ""
  /\ rv.user = Absent => rv.userName # "" /\ rv.userEmail # "" /\ IsEmail(rv.userEmail)
  /\ LET reviewData == [userId |-> rv.user,
                        userEmail |-> IF rv.user = Absent
                                        THEN NormaliseEmail(rv.userEmail) ELSE Absent,
                        itemId |-> rv.itemId]
     IN rv' = [rv EXCEPT !.submits = @ + 1,
                         !.creating = Append(@, reviewData),
                         !.calls = @ \cup
                           {[userId |-> reviewData.userId,
                             userEmail |-> reviewData.userEmail,
                             itemId |-> reviewData.itemId,
                             reviewed |-> HasUserReviewed(rv.reviews, rv.user,
                                            NormaliseEmail(OrElse(rv.email, rv.userEmail)),
                                            rv.itemId)]}]
  /\ UNCHANGED rvFrame

\* One createReview.mutateAsync resolves, the review of the reviewData it was
\* called with is stored, the form is reset and onClose() called (the effect
\* of closing an open modal runs later, after the render), or it rejects.
CreateReviewReturns ==
  /\ \E k \in DOMAIN rv.creating :
       LET reviewData == rv.creating[k]
       IN \/ rv' = [rv EXCEPT !.creating = RemoveAt(@, k), !.comment = "",
                              !.isOpen = FALSE, !.closing = @ \/ rv.isOpen,
                              !.userName = IF rv.user = Absent THEN "" ELSE @,
                              !.userEmail = IF rv.user = Absent THEN "" ELSE @,
                              !.reviews = @ \cup
                                {<<IF reviewData.userId # Absent
                                     THEN reviewData.userId ELSE reviewData.userEmail,
                                   reviewData.itemId>>}]
          \/ rv' = [rv EXCEPT !.creating = RemoveAt(@, k)]
  /\ UNCHANGED rvFrame

\* The effect of the render that followed a close made by handleSubmit.
CloseEffect ==
  /\ rv.closing
  /\ rv' = CheckEffect([rv EXCEPT !.closing = FALSE])
  /\ UNCHANGED rvFrame

\* ------------------------------------------- isValidBookingStatusTransition
\* A status string that is no booking status (no key of validTransitions).
OtherStatus == "processing"
\* A string that names a member of Object.prototype.
InheritedStatus == "constructor"

\* One evaluation of isValidBookingStatusTransition(bk.cur, bk.new).
CheckBookingTransition ==
  /\ ~bk.done
  /\ bk' = [bk EXCEPT !.done = TRUE,
                      !.result = isValidBookingStatusTransition(bk.cur, bk.new)]
  /\ UNCHANGED bookingFrame

\* ------------------------------------------------------------ specifications
\* The orders collection holds one order, in status s; o2 is an id with no
\* document.
OrdersInit(s) ==
  /\ orders = [id \in OrderIds |->
                 IF id = "o1"
                   THEN [exists |-> TRUE, status |-> s, notes |-> Absent, canceledAt |-> 0,
                         canceledReason |-> Absent, updatedAt |-> 1]
                   ELSE NoOrder]
  /\ ocalls = [c \in OrderSlots |-> IdleCall]
  /\ now = 1

\* The items collection holds items 1..n with distinct slugs; ledger entry 1
\* exists and entry 2 does not.
ItemsInit(n) ==
  /\ items = [i \in ItemIds |->
                IF i <= n
                  THEN [exists |-> TRUE, slug |-> IF i = 1 THEN "s1" ELSE "s2",
                        name |-> "a", updatedAt |-> 1]
                  ELSE NoItem]
  /\ nextItem = n + 1
  /\ ledger = [e \in LedgerIds |-> e = 1]
  /\ icalls = [c \in ItemSlots |-> IdleItemCall]

BookingInit(c, n) == bk = [cur |-> c, new |-> n, done |-> FALSE, result |-> "none"]

\* The parts of the state a specification does not use stay as they start.
DerivedIdle ==
  DerivedInit([id \in OrderIds |-> NoFunds], [id \in BookingIds |-> NoBooking], NoOptions)

\* A mounted cart provider that found no saved cart.
CartIdle == CartInit(NoEntry, <<>>, FALSE)

\* A confirmation page of a missing booking, nothing loaded or verified.
ConfirmIdle == ConfirmInit("BookConfirmedPage", Absent, Absent)

\* A login page nobody uses.
LoginIdle ==
  LoginInit(FALSE, Absent, [role |-> "CUSTOMER", emailVerified |-> TRUE], FALSE,
            [production |-> FALSE, siteKey |-> FALSE], FALSE)

\* A closed review modal of a guest, no review stored.
ReviewIdle == ReviewInit(Absent, "", "", {})

\* The subsystems added to the model later, not started.
LaterInit == DerivedIdle /\ CartIdle /\ ConfirmIdle /\ LoginIdle /\ ReviewIdle

RestInit ==
  /\ RecaptchaInit(Absent, "direct", "json", "")
  /\ AuthInit("signOut", Absent, NoUser)
  /\ LaterInit

\* The subsystems of the first half of the model, not started.
CoreInit ==
  /\ ItemsInit(1) /\ BookingInit("pending", "paid") /\ GetItemsInit(FALSE, <<>>, <<>>)
  /\ RecaptchaInit(Absent, "direct", "json", "")
  /\ AuthInit("signOut", Absent, NoUser)

OthersInit == BookingInit("pending", "paid") /\ GetItemsInit(FALSE, <<>>, <<>>) /\ RestInit

\* Slots are taken in order (slot c starts after slot c-1 has started).
MayStart(c) == \A b \in OrderSlots : b < c => ocalls[b].pc # "idle"
MayStartItem(c) == \A b \in ItemSlots : b < c => icalls[b].pc # "idle"
\* No call is between its start and its end.
NoOrderCallInFlight == \A b \in OrderSlots : ocalls[b].pc \in {"idle", "done"}
NoItemCallInFlight == \A b \in ItemSlots : icalls[b].pc \in {"idle", "done"}

\* Overlapping order calls on an order in any status: any call may start or
\* take its next step at any time.
Init == (\E s \in OrderStatuses : OrdersInit(s)) /\ ItemsInit(1) /\ OthersInit

Next ==
  \E c \in OrderSlots :
    \/ MayStart(c) /\ \E id \in OrderIds : GetOrderByIdCall(c, id)
    \/ MayStart(c) /\ \E id \in OrderIds, upd \in OrderUpdates : UpdateOrderCall(c, id, upd)
    \/ MayStart(c) /\ \E id \in OrderIds, r \in Reasons : CancelOrderCall(c, id, r)
    \/ GetOrderById(c)
    \/ UpdateOrderGet(c)
    \/ UpdateOrderWrite(c)
    \/ CancelOrderGet(c)

Spec == Init /\ [][Next]_vars

\* One order call at a time: a call starts only when no other call is in flight.
NextOrdersSeq ==
  \E c \in OrderSlots :
    \/ /\ MayStart(c) /\ NoOrderCallInFlight
       /\ \E id \in OrderIds : GetOrderByIdCall(c, id)
    \/ /\ MayStart(c) /\ NoOrderCallInFlight
       /\ \E id \in OrderIds, upd \in OrderUpdates : UpdateOrderCall(c, id, upd)
    \/ /\ MayStart(c) /\ NoOrderCallInFlight
       /\ \E id \in OrderIds, r \in Reasons : CancelOrderCall(c, id, r)
    \/ GetOrderById(c)
    \/ UpdateOrderGet(c)
    \/ UpdateOrderWrite(c)
    \/ CancelOrderGet(c)

SpecOrdersSeq == Init /\ [][NextOrdersSeq]_vars

\* Overlapping createItem, updateItem and deleteItem calls on a collection of
\* one or two items.
InitItems == OrdersInit("pending") /\ (\E n \in 1..2 : ItemsInit(n)) /\ OthersInit

NextItems ==
  \E c \in ItemSlots :
    \/ MayStartItem(c) /\ \E item \in NewItems : CreateItemCall(c, item)
    \/ MayStartItem(c) /\ \E id \in ItemIds, upd \in ItemUpdates : UpdateItemCall(c, id, upd)
    \/ MayStartItem(c) /\ \E id \in ItemIds : DeleteItemCall(c, id)
    \/ CreateItemSlug(c)
    \/ CreateItemImport(c)
    \/ CreateItemBusiness(c)
    \/ CreateItemWrite(c)
    \/ UpdateItemGet(c)
    \/ UpdateItemSlug(c)
    \/ UpdateItemWrite(c)
    \/ DeleteItemGet(c)
    \/ DeleteItemWrite(c)

SpecItems == InitItems /\ [][NextItems]_vars

\* isValidBookingStatusTransition on every pair of status strings.
InitBooking ==
  /\ OrdersInit("pending") /\ ItemsInit(1)
  /\ \E c \in BookingStatuses \cup {OtherStatus, InheritedStatus},
        n \in BookingStatuses \cup {OtherStatus, InheritedStatus} :
       BookingInit(c, n)
  /\ GetItemsInit(FALSE, <<>>, <<>>) /\ RestInit

NextBooking == CheckBookingTransition

SpecBooking == InitBooking /\ [][NextBooking]_vars

\* One call at a time over the three collections: order, item and ledger calls
\* follow each other, none overlapping another.
InitStore == OrdersInit("paid") /\ (\E n \in 1..2 : ItemsInit(n)) /\ OthersInit

\* The arguments the store specification draws from: the documents' existence
\* is what its claims are about.
StoreOrderUpdates ==
  {u \in OrderUpdates : u.notes = Absent /\ u.status \in {Absent, "processing", "completed"}}
StoreNewItems == {n \in NewItems : n.name = "a" /\ n.type = "product"}
StoreItemUpdates == {u \in ItemUpdates : u.name = Absent}

StoreCallsMade ==
  Cardinality({c \in OrderSlots : ocalls[c].pc # "idle"})
    + Cardinality({c \in ItemSlots : icalls[c].pc # "idle"})

StoreMayStart ==
  NoOrderCallInFlight /\ NoItemCallInFlight /\ StoreCallsMade < MaxStoreCalls

NextStore ==
  \/ \E c \in OrderSlots :
       \/ /\ MayStart(c) /\ StoreMayStart
          /\ \E id \in OrderIds : GetOrderByIdCall(c, id)
       \/ /\ MayStart(c) /\ StoreMayStart
          /\ \E id \in OrderIds, upd \in StoreOrderUpdates : UpdateOrderCall(c, id, upd)
       \/ /\ MayStart(c) /\ StoreMayStart
          /\ \E id \in OrderIds, r \in Reasons : CancelOrderCall(c, id, r)
       \/ GetOrderById(c)
       \/ UpdateOrderGet(c)
       \/ UpdateOrderWrite(c)
       \/ CancelOrderGet(c)
  \/ \E c \in ItemSlots :
       \/ /\ MayStartItem(c) /\ StoreMayStart
          /\ \E id \in ItemIds : GetItemByIdCall(c, id)
       \/ /\ MayStartItem(c) /\ StoreMayStart
          /\ \E id \in LedgerIds : GetLedgerEntryByIdCall(c, id)
       \/ /\ MayStartItem(c) /\ StoreMayStart
          /\ \E item \in StoreNewItems : CreateItemCall(c, item)
       \/ /\ MayStartItem(c) /\ StoreMayStart
          /\ \E id \in ItemIds, upd \in StoreItemUpdates : UpdateItemCall(c, id, upd)
       \/ /\ MayStartItem(c) /\ StoreMayStart
          /\ \E id \in ItemIds : DeleteItemCall(c, id)
       \/ GetItemById(c)
       \/ GetLedgerEntryById(c)
       \/ CreateItemSlug(c)
       \/ CreateItemImport(c)
       \/ CreateItemBusiness(c)
       \/ CreateItemWrite(c)
       \/ UpdateItemGet(c)
       \/ UpdateItemSlug(c)
       \/ UpdateItemWrite(c)
       \/ DeleteItemGet(c)
       \/ DeleteItemWrite(c)

SpecStore == InitStore /\ [][NextStore]_vars

\* getItemsByIds on every id list, with every pattern of failing fetches, over
\* a collection of one or two items (the other ids have no document).
InitGetItems ==
  /\ OrdersInit("pending") /\ (\E n \in 1..2 : ItemsInit(n))
  /\ BookingInit("pending", "paid") /\ RestInit
  /\ \/ GetItemsInit(FALSE, <<>>, <<>>)
     \/ \E ids \in IdLists : \E fails \in [1..Len(ids) -> BOOLEAN] :
          GetItemsInit(TRUE, ids, fails)

NextGetItems == GetItemsByIdsCall \/ GetItemsFetch

SpecGetItems == InitGetItems /\ [][NextGetItems]_vars

\* One reCAPTCHA verification, called directly or through the route, for every
\* secret configuration, token and answer of the siteverify endpoint.
InitRecaptcha ==
  /\ OrdersInit("pending") /\ ItemsInit(1)
  /\ BookingInit("pending", "paid") /\ GetItemsInit(FALSE, <<>>, <<>>)
  /\ AuthInit("signOut", Absent, NoUser) /\ LaterInit
  /\ \E secret \in Secrets :
       \/ \E token \in Tokens : RecaptchaInit(secret, "direct", "json", token)
       \/ \E token \in Tokens \cup {Absent} : RecaptchaInit(secret, "route", "json", token)
       \/ RecaptchaInit(secret, "route", "bad", Absent)

NextRecaptcha ==
  \/ PostRoute
  \/ VerifyRecaptchaCall
  \/ VerifyFetch
  \/ VerifyJson
  \/ PostRouteRespond

SpecRecaptcha == InitRecaptcha /\ [][NextRecaptcha]_vars

\* One signInWithGoogle call, for every Firebase profile name and every user
\* document it may find, or one signOut call.
InitAuth ==
  /\ OrdersInit("pending") /\ ItemsInit(1)
  /\ BookingInit("pending", "paid") /\ GetItemsInit(FALSE, <<>>, <<>>)
  /\ RecaptchaInit(Absent, "direct", "json", "") /\ LaterInit
  /\ \/ \E p \in ProfileNames, u \in StoredUsers \cup {NoUser} :
          AuthInit("signInWithGoogle", p, u)
     \/ AuthInit("signOut", Absent, NoUser)

NextAuth ==
  \/ SignInWithGoogleCall
  \/ SignInPopup
  \/ SignInLookup
  \/ SignInImport
  \/ SignInCreate
  \/ SignInRelookup
  \/ SignInUpdate
  \/ SignInReread
  \/ SignOutCall
  \/ SignOut

SpecAuth == InitAuth /\ [][NextAuth]_vars

\* ------------------------------------------------------------ order claims
\* The edges of the order status table, as the claims list them.
OrderEdges ==
  {<<"pending", "paid">>, <<"pending", "canceled">>,
   <<"paid", "processing">>, <<"paid", "canceled">>, <<"paid", "refunded">>,
   <<"processing", "shipped">>, <<"processing", "canceled">>,
   <<"shipped", "completed">>, <<"shipped", "canceled">>}

TerminalOrderStatuses == {"completed", "canceled", "refunded"}
CancellableOrderStatuses == {"pending", "paid", "processing", "shipped"}

\* C1: with calls running one after another, every change of a stored order
\* status is an edge of the table, and an updateOrder whose updates.status
\* differs from the stored status and is no edge ends with ValidationError
\* without writing.
C1_StatusChangesAreEdges ==
  [][/\ \A id \in OrderIds :
          orders'[id].status # orders[id].status
            => <<orders[id].status, orders'[id].status>> \in OrderEdges
     /\ \A c \in OrderSlots :
          LET call == ocalls[c]
              cur == orders[call.id]
          IN (/\ call.pc = "update_get"
              /\ ocalls'[c] # call
              /\ cur.exists
              /\ call.upd.status # Absent
              /\ call.upd.status # cur.status
              /\ <<cur.status, call.upd.status>> \notin OrderEdges)
             => /\ ocalls'[c].pc = "done"
                /\ ocalls'[c].result = "ValidationError"
                /\ orders' = orders]_vars

\* C1 witness: one call has moved the order along an edge and a later call
\* asking for a non-edge was rejected.
C1_Witness ==
  /\ orders["o1"].status = "paid"
  /\ ocalls[1].op = "updateOrder" /\ ocalls[1].result = "ok" /\ ocalls[1].upd.status = "paid"
  /\ ocalls[2].op = "updateOrder" /\ ocalls[2].result = "ValidationError"
  /\ ocalls[2].upd.status = "shipped"

\* C2 (as claimed): once the stored status is completed, canceled or refunded,
\* no step of any call changes it, also when calls overlap.
C2_TerminalStatusNeverChanges ==
  [][\A id \in OrderIds :
       orders[id].status \in TerminalOrderStatuses
         => orders'[id].status = orders[id].status]_vars

\* C3: with calls running one after another, cancelOrder on an existing order
\* ends ok exactly when the stored status is pending, paid, processing or
\* shipped, leaving status canceled with canceledAt and canceledReason written;
\* from completed, canceled or refunded it ends with ValidationError and the
\* document is unchanged. It writes nothing before its last step.
C3_CancelOrder ==
  [][\A c \in OrderSlots :
       LET call == ocalls[c]
           before == orders[call.id]
           after == orders'[call.id]
       IN (call.op = "cancelOrder" /\ ocalls'[c] # call /\ before.exists)
          => IF ocalls'[c].pc # "done"
               THEN orders' = orders
               ELSE IF before.status \in CancellableOrderStatuses
                      THEN /\ ocalls'[c].result = "ok"
                           /\ after.status = "canceled"
                           /\ after.canceledAt # 0
                           /\ after.canceledAt = call.upd.canceledAt
                           /\ after.canceledReason \in Reasons
                           /\ after.canceledReason = call.upd.canceledReason
                      ELSE /\ before.status \in TerminalOrderStatuses
                           /\ ocalls'[c].result = "ValidationError"
                           /\ orders' = orders]_vars

\* C3 witness: a cancelOrder call has canceled a shipped order.
C3_Witness ==
  \E c \in OrderSlots :
    /\ ocalls[c].op = "cancelOrder" /\ ocalls[c].result = "ok"
    /\ orders["o1"].status = "canceled" /\ orders["o1"].canceledReason = "r1"
    /\ orders["o1"].canceledAt # 0
    /\ \E b \in OrderSlots : ocalls[b].upd.status = "shipped" /\ ocalls[b].result = "ok"

\* C4: the step in which updateOrder rejects a status transition with
\* ValidationError writes nothing: the orders collection (the other fields of
\* updates, updatedAt) and the server clock are as before.
C4_RejectedUpdateWritesNothing ==
  [][\A c \in OrderSlots :
       (/\ ocalls[c].op = "updateOrder"
        /\ ocalls[c].result # "ValidationError"
        /\ ocalls'[c].result = "ValidationError")
       => orders' = orders /\ now' = now]_vars

\* C4 witness: an updateOrder carrying notes and an invalid status was rejected
\* and the order still has no notes and its first updatedAt.
C4_Witness ==
  \E c \in OrderSlots :
    /\ ocalls[c].op = "updateOrder" /\ ocalls[c].result = "ValidationError"
    /\ ocalls[c].upd.notes = "n1"
    /\ orders[ocalls[c].id].notes = Absent
    /\ orders[ocalls[c].id].updatedAt = 1

\* ------------------------------------------------- booking and item claims
\* The edges of the booking status table, as the claim lists them.
BookingEdges ==
  {<<"pending", "paid">>, <<"pending", "canceled">>,
   <<"paid", "confirmed">>, <<"paid", "canceled">>, <<"paid", "refunded">>,
   <<"confirmed", "completed">>, <<"confirmed", "canceled">>, <<"confirmed", "no_show">>}

\* C5: on every pair of the seven booking statuses,
\* isValidBookingStatusTransition is true exactly on the eight listed edges;
\* it is false from completed, canceled, no_show and refunded and for
\* current = new.
C5_BookingTable ==
  (bk.done /\ bk.cur \in BookingStatuses /\ bk.new \in BookingStatuses)
    => /\ bk.result = (IF <<bk.cur, bk.new>> \in BookingEdges THEN "true" ELSE "false")
       /\ bk.cur \in {"completed", "canceled", "no_show", "refunded"} => bk.result = "false"
       /\ bk.cur = bk.new => bk.result = "false"

\* C5 witness: confirmed -> no_show was evaluated and accepted.
C5_Witness == bk.done /\ bk.cur = "confirmed" /\ bk.new = "no_show" /\ bk.result = "true"

\* C6 (as claimed): no two item documents have the same slug, whatever the
\* interleaving of createItem, updateItem and deleteItem calls.
C6_SlugsUnique ==
  \A i \in ItemIds, j \in ItemIds :
    (i # j /\ items[i].exists /\ items[j].exists) => items[i].slug # items[j].slug

\* Whether the document a call addresses exists.
Addressed(call) ==
  IF call.op = "getLedgerEntryById" THEN ledger[call.id] ELSE items[call.id].exists

\* C7: the step in which getOrderById, updateOrder, cancelOrder, getItemById,
\* updateItem, deleteItem or getLedgerEntryById reads a document that does not
\* exist ends the call with NotFoundError and writes and deletes nothing.
C7_NotFound ==
  [][/\ \A c \in OrderSlots :
          (/\ ocalls[c].pc \in {"get", "update_get", "cancel_get"}
           /\ ocalls'[c] # ocalls[c]
           /\ ~orders[ocalls[c].id].exists)
          => /\ ocalls'[c].pc = "done"
             /\ ocalls'[c].result = "NotFoundError"
             /\ dbVars' = dbVars
     /\ \A c \in ItemSlots :
          (/\ icalls[c].pc \in {"get", "update_get", "delete_get"}
           /\ icalls'[c] # icalls[c]
           /\ ~Addressed(icalls[c]))
          => /\ icalls'[c].pc = "done"
             /\ icalls'[c].result = "NotFoundError"
             /\ dbVars' = dbVars]_vars

\* C7 witness: item 1 was deleted and a later updateItem of item 1 ended with
\* NotFoundError.
C7_Witness ==
  \E b \in ItemSlots, c \in ItemSlots :
    /\ icalls[b].op = "deleteItem" /\ icalls[b].id = 1 /\ icalls[b].result = "ok"
    /\ icalls[c].op = "updateItem" /\ icalls[c].id = 1
    /\ icalls[c].result = "NotFoundError"
    /\ ~items[1].exists

\* ------------------------------------------------------ getItemsByIds claims
\* The positions of ids whose document exists and whose fetch did not fail.
GoodPositions == {p \in 1..Len(gi.ids) : items[gi.ids[p]].exists /\ ~gi.fails[p]}

RECURSIVE AtPositions(_, _, _)
\* The subsequence of ids at the positions in P, from position p on.
AtPositions(ids, P, p) ==
  IF p > Len(ids) THEN <<>>
  ELSE IF p \in P THEN <<ids[p]>> \o AtPositions(ids, P, p + 1)
  ELSE AtPositions(ids, P, p + 1)

\* C8 (as claimed): the result is, in the order of itemIds, exactly the entries
\* whose document exists and whose fetch did not fail.
C8_ExactlyTheFetched ==
  gi.pc = "done" => gi.result = AtPositions(gi.ids, GoodPositions, 1)

\* C8 (amended): the call never throws; the result is, in the order of itemIds,
\* every entry whose id has a document that at least one fetch of that id
\* found (an id listed twice is returned at both places as soon as one of its
\* fetches succeeds), which for ids whose fetches all failed or that have no
\* document drops only them; an empty or absent list returns [] with no read.
C8_FetchedIdsInOrder ==
  gi.pc = "done"
    => /\ ~gi.threw
       /\ LET Found(id) == \E p \in GoodPositions : gi.ids[p] = id
          IN gi.result = SelectSeq(gi.ids, Found)
       /\ (~gi.given \/ gi.ids = <<>>) => (gi.result = <<>> /\ gi.reads = 0)
       /\ gi.reads <= Len(gi.ids)

\* C8 witness: of three ids the fetch of the first failed, the second has no
\* document and the third was found: only the third is returned.
C8_Witness ==
  /\ gi.pc = "done" /\ Len(gi.ids) = 3 /\ gi.reads = 3
  /\ gi.fails[1] /\ gi.ids[1] = 1
  /\ ~gi.fails[2] /\ ~items[gi.ids[2]].exists
  /\ ~gi.fails[3] /\ gi.ids[3] = 1
  /\ gi.result = <<1, 1>>

\* --------------------------------------------------------- reCAPTCHA claims
\* C9: verifyRecaptcha never throws. With a secret configured it returns true
\* only for a non-empty token whose siteverify response has success === true,
\* returns false for an empty token without calling the endpoint, and returns
\* false when the request failed or the response was unparsable. With no
\* secret it returns true for every token, the empty one included.
C9_VerifyRecaptcha ==
  /\ ~rc.threw
  /\ ~Truthy(rc.token) /\ Truthy(rc.secret) => rc.calls = 0
  /\ rc.returned =>
       IF Truthy(rc.secret)
         THEN /\ rc.result => (Truthy(rc.token) /\ rc.fetch \in {"response", "error_status"}
                               /\ rc.data = "success_true")
              /\ ~Truthy(rc.token) => ~rc.result
              /\ (rc.fetch = "failed" \/ rc.data = "unparsable") => ~rc.result
         ELSE rc.result

\* C9 witness: with a secret, a token was verified by a success === true
\* response; the state also has to be one of a direct call.
C9_Witness ==
  /\ rc.returned /\ rc.result /\ rc.secret = "k1" /\ rc.token = "t1"
  /\ rc.data = "success_true" /\ rc.calls = 1 /\ rc.entry = "direct"
  /\ rc.fetch = "response"

\* -------------------------------------------------------------- auth claims
\* C10: a finished signInWithGoogle or signOut call either succeeded, with no
\* failure inside, or threw an AuthenticationError; every failure inside
\* (popup closed or blocked, a rejected lookup, creation or update, a profile
\* still missing after creation, a rejected firebaseSignOut) reaches the caller
\* as AuthenticationError and as nothing else.
C10_OnlyAuthenticationError ==
  au.pc = "done"
    => /\ au.thrown.kind \in {"none", "AuthenticationError"}
       /\ (au.err.kind # "none") <=> (au.thrown.kind = "AuthenticationError")
       /\ (au.result = "ok") <=> (au.err.kind = "none")
       /\ (au.result = "error") <=> (au.err.kind # "none")

\* C10 witness: createUser rejected with a ValidationError and the caller got
\* an AuthenticationError.
C10_Witness ==
  /\ au.pc = "done" /\ au.op = "signInWithGoogle" /\ ~au.user.exists
  /\ au.err.kind = "ValidationError" /\ au.thrown.kind = "AuthenticationError"
  /\ au.thrown.message = "m"

\* C11: signInWithGoogle calls createUser only when the lookup found no
\* document, and the document it creates has role customer; for an existing
\* user no step changes the role or replaces a non-empty firstName, lastName
\* or displayName, and updateUserByUid is called only when firstName or
\* lastName is missing and the profile's displayName yields a name part;
\* no other step changes the user document.
C11_UserWrites ==
  [][LET created == au.pc = "create" /\ au'.pc = "relookup"
         updated == au.pc = "update" /\ au'.pc = "reread"
         n == ExtractNameFromDisplayName(au.profile)
     IN /\ (au'.user # au.user) => (created \/ updated)
        /\ created => /\ ~au.user.exists
                      /\ au'.user.exists => au'.user.role = "customer"
        /\ updated => /\ au.user.exists
                      /\ ~Truthy(au.user.firstName) \/ ~Truthy(au.user.lastName)
                      /\ Truthy(au.profile)
                      /\ Truthy(n.firstName) \/ Truthy(n.lastName)
        /\ au.user.exists =>
             /\ au'.user.exists /\ au'.user.role = au.user.role
             /\ Truthy(au.user.firstName) => au'.user.firstName = au.user.firstName
             /\ Truthy(au.user.lastName) => au'.user.lastName = au.user.lastName
             /\ Truthy(au.user.displayName) => au'.user.displayName = au.user.displayName]_vars

\* C11 witness: an admin stored as "Bo" without a last name signed in with the
\* profile "Ann Lee": the last name was filled in, the rest was kept.
C11_Witness ==
  /\ au.pc = "done" /\ au.result = "ok" /\ au.profile = "Ann Lee"
  /\ au.user.role = "admin" /\ au.user.firstName = "Bo" /\ au.user.lastName = "Lee"
  /\ au.user.displayName = "Bo Ray"

\* -------------------------------------------- getDerivedTransactions claims
\* Both orders exist, o1 with status s1 and o2 with status s2.
DerivedOrdersInit(s1, s2) ==
  /\ orders = [id \in OrderIds |->
                 [exists |-> TRUE, status |-> IF id = "o1" THEN s1 ELSE s2, notes |-> Absent,
                  canceledAt |-> 0, canceledReason |-> Absent, updatedAt |-> 1]]
  /\ ocalls = [c \in OrderSlots |-> IdleCall]
  /\ now = 1

\* One getDerivedTransactions call, for every option, over two orders and two
\* bookings: o1 and b1 in any payment state, o2 paid at date 2, b2 confirmed
\* and paid at date 1. No order or booking changes during the call.
InitDerived ==
  /\ CoreInit /\ CartIdle /\ ConfirmIdle /\ LoginIdle /\ ReviewIdle
  /\ \E s \in {"pending", "paid", "shipped", "refunded"}, pay \in BOOLEAN,
        paidAt \in {0, 1, 2}, r \in {0, 3},
        bs \in {"pending", "paid", "completed"}, bpay \in BOOLEAN, bpaidAt \in {0, 3},
        br \in {0, 3}, opts \in DerivedOptions :
       /\ DerivedOrdersInit(s, "paid")
       /\ DerivedInit(
            [id \in OrderIds |->
               IF id = "o1"
                 THEN [payment |-> pay, paidAt |-> paidAt, createdAt |-> 3, refundedAt |-> r]
                 ELSE [payment |-> TRUE, paidAt |-> 2, createdAt |-> 1, refundedAt |-> 0]],
            [id \in BookingIds |->
               IF id = "b1"
                 THEN [exists |-> TRUE, status |-> bs, payment |-> bpay, paidAt |-> bpaidAt,
                       createdAt |-> 1, refundedAt |-> br]
                 ELSE [exists |-> TRUE, status |-> "confirmed", payment |-> TRUE,
                       paidAt |-> 1, createdAt |-> 2, refundedAt |-> 0]],
            opts)

NextDerived ==
  \/ GetDerivedTransactionsCall
  \/ DerivedOrdersQuery
  \/ DerivedBookingsQuery

SpecDerived == InitDerived /\ [][NextDerived]_vars

\* The document a transaction names, with its status.
SourceOf(t) ==
  IF t.source = "order"
    THEN [status |-> orders[t.id[2]].status, funds |-> fin.orders[t.id[2]]]
    ELSE [status |-> fin.bookings[t.id[2]].status, funds |-> fin.bookings[t.id[2]]]

\* C12: every transaction getDerivedTransactions returns comes from an order
\* with status paid, processing, shipped or completed or from a booking with
\* status paid, confirmed or completed, that has a payment and no refundedAt
\* and whose payment date (paidAt, else createdAt) is not before startDate and
\* not after endDate when these are given; with entryType ORDER_SALE only
\* order transactions are returned, with BOOKING_PAYMENT only booking ones.
C12_OnlyPaidInRange ==
  \A i \in DOMAIN dt.result :
    LET t == dt.result[i]
        d == SourceOf(t)
        date == IF d.funds.paidAt # 0 THEN d.funds.paidAt ELSE d.funds.createdAt
    IN /\ t.source \in {"order", "booking"}
       /\ t.source = "order" =>
            /\ d.status \in {"paid", "processing", "shipped", "completed"}
            /\ t.entryType = "ORDER_SALE" /\ t.id[2] \in OrderIds
       /\ t.source = "booking" =>
            /\ d.status \in {"paid", "confirmed", "completed"}
            /\ t.entryType = "BOOKING_PAYMENT" /\ t.id[2] \in BookingIds
       /\ d.funds.payment /\ d.funds.refundedAt = 0
       /\ dt.opts.startDate # 0 => date >= dt.opts.startDate
       /\ dt.opts.endDate # 0 => date <= dt.opts.endDate
       /\ dt.opts.entryType = "ORDER_SALE" => t.source = "order"
       /\ dt.opts.entryType = "BOOKING_PAYMENT" => t.source = "booking"

\* C12 witness: with no entryType and the range [2, 2] the call returned
\* exactly order o2, paid at 2, while o1 (shipped, paid at 2, refunded) and the
\* bookings (paid at 1 and 3) were left out.
C12_Witness ==
  /\ dt.pc = "done" /\ ~dt.threw /\ dt.opts.entryType = Absent
  /\ dt.opts.startDate = 2 /\ dt.opts.endDate = 2
  /\ orders["o1"].status = "shipped" /\ fin.orders["o1"].payment
  /\ fin.orders["o1"].paidAt = 2 /\ fin.orders["o1"].refundedAt # 0
  /\ fin.bookings["b1"].status = "paid" /\ fin.bookings["b1"].payment
  /\ fin.bookings["b1"].paidAt = 3
  /\ Len(dt.result) = 1 /\ dt.result[1].id = <<"order", "o2">>

\* C13: the result of getDerivedTransactions is sorted by transaction date,
\* newest first, and with a limit it has at most limit entries.
C13_SortedAndLimited ==
  dt.pc = "done"
    => /\ \A i, j \in DOMAIN dt.result :
            i < j => dt.result[i].createdAt >= dt.result[j].createdAt
       /\ dt.opts.limit # 0 => Len(dt.result) <= dt.opts.limit

\* C13 witness: with limit 2 four transactions were collected, pushed with
\* an older one first, and the two newest came back, newest first.
C13_Witness ==
  /\ dt.pc = "done" /\ ~dt.threw /\ dt.opts.limit = 2
  /\ Len(dt.transactions) > 2
  /\ dt.transactions[1].createdAt < dt.transactions[Len(dt.transactions)].createdAt
  /\ Len(dt.result) = 2 /\ dt.result[1].createdAt > dt.result[2].createdAt

\* --------------------------------------------------------------- cart claims
\* A cart line as an earlier visit put it in the cart and saved it.
SavedLine ==
  [product |-> [id |-> "p1", createdAt |-> Timestamp(1, 0)], quantity |-> 1,
   selectedVariants |-> Absent]

\* A cart provider mounted on no saved cart, an unparsable one, a saved
\* empty one or a saved cart of one line, in a production build or a
\* development build in StrictMode, then up to MaxCartOps handler calls; the
\* save effect runs after a render, before or after further handler calls.
InitCart ==
  /\ OrdersInit("pending") /\ CoreInit /\ DerivedIdle /\ ConfirmIdle /\ LoginIdle /\ ReviewIdle
  /\ \E e \in {NoEntry, BadEntry, [kind |-> "json", text |-> Stringify(<<>>)],
               [kind |-> "json", text |-> Stringify(<<SavedLine>>)]},
        strictMode \in BOOLEAN :
       CartInit(e, LoadCart(e), strictMode)

NextCart ==
  \/ \E p \in Products, q \in Quantities, v \in Variants : AddItem(p, q, v)
  \/ \E p \in ProductIds : RemoveItem(p)
  \/ \E p \in ProductIds, q \in 0..MaxQuantity : UpdateQuantity(p, q)
  \/ ClearCart
  \/ SaveEffect

SpecCart == InitCart /\ [][NextCart]_vars

\* C14 as stated: once the save effect of the last change has run, the items
\* a new CartProvider loads from localStorage 'cart' (none for no entry or an
\* unparsable one) equal the items in memory.
C14_LoadedCartIsItems ==
  ~cart.dirty => LoadCart(cart.storage) = cart.items

\* C14 as amended: once the save effect of the last change has run, the items
\* a new CartProvider loads from localStorage 'cart' are the lines in memory
\* in the same order, each with the same product id, quantity and
\* selectedVariants, and with the product's Timestamp as a plain object of
\* the same seconds and nanoseconds instead of a Timestamp; they equal the
\* items in memory when no product in memory holds a Timestamp.
C14_LoadedCartIsItemsAsJson ==
  ~cart.dirty
    => LET loaded == LoadCart(cart.storage)
       IN /\ Len(loaded) = Len(cart.items)
          /\ (\A i \in DOMAIN cart.items : cart.items[i].product.createdAt.type = "Object")
               => loaded = cart.items
          /\ \A i \in DOMAIN cart.items :
               /\ loaded[i].product.id = cart.items[i].product.id
               /\ loaded[i].quantity = cart.items[i].quantity
               /\ loaded[i].selectedVariants = cart.items[i].selectedVariants
               /\ loaded[i].product.createdAt.type = "Object"
               /\ loaded[i].product.createdAt.seconds
                    = cart.items[i].product.createdAt.seconds
               /\ loaded[i].product.createdAt.nanoseconds
                    = cart.items[i].product.createdAt.nanoseconds

\* C14 witness: a cart of two lines, one with and one without selected
\* variants, both products holding a Timestamp, was saved after a clearCart
\* and two addItem calls.
C14_Witness ==
  /\ ~cart.dirty /\ cart.ops = MaxCartOps /\ cart.storage.kind = "json"
  /\ Len(cart.items) = 2
  /\ cart.items[1].selectedVariants = Absent /\ cart.items[2].selectedVariants = "v1"
  /\ \A i \in 1..2 : cart.items[i].product.createdAt.type = "Timestamp"
  /\ DOMAIN cart.storage.text[1] # DOMAIN cart.storage.text[2]

\* C15: a cart that starts empty never holds two lines with the same product
\* id, and addItem for a product already in the cart increases the quantity of
\* the existing line (by the quantity given when the updater is invoked once),
\* which keeps its place and its selectedVariants, and leaves every other line
\* as it is.
C15_OneLinePerProduct ==
  [][/\ \A i, j \in DOMAIN cart'.items :
          cart'.items[i].product.id = cart'.items[j].product.id => i = j
     /\ \A p \in Products, q \in Quantities, v \in Variants :
          AddItem(p, q, v) /\ FindIndex(cart.items, p.id) > 0
            => LET k == FindIndex(cart.items, p.id)
               IN /\ Len(cart'.items) = Len(cart.items)
                  /\ cart'.items[k].product = cart.items[k].product
                  /\ cart'.items[k].product.id = p.id
                  /\ cart'.items[k].quantity > cart.items[k].quantity
                  /\ ~cart.strictMode
                       => cart'.items[k].quantity = cart.items[k].quantity + q
                  /\ cart'.items[k].selectedVariants = cart.items[k].selectedVariants
                  /\ \A i \in DOMAIN cart.items : i # k => cart'.items[i] = cart.items[i]]_vars

\* C15 witness: p1 with variants v1 is the second line and holds the
\* quantity of two addItem calls, MaxQuantity each.
C15_Witness ==
  /\ ~cart.strictMode
  /\ Len(cart.items) = 2 /\ cart.items[2].product.id = "p1"
  /\ cart.items[2].quantity = 2 * MaxQuantity /\ cart.items[2].selectedVariants = "v1"

\* ----------------------------------------------- confirmation page claims
\* One confirmation page, opened with or without a txRef, for a booking or
\* order that is missing, pending or paid, under a cart provider that loaded
\* the saved cart of the purchase: the document loads (on the order
\* page again when isPaymentSuccessful changed), the payment is verified up to
\* MaxVerifies times, the clear-cart effect runs, and the provider's save
\* effect follows every render of new items.
InitConfirm ==
  /\ OrdersInit("pending") /\ CoreInit /\ DerivedIdle /\ LoginIdle /\ ReviewIdle
  /\ LET e == [kind |-> "json", text |-> Stringify(<<SavedLine>>)]
     IN CartInit(e, LoadCart(e), FALSE)
  /\ \E page \in ConfirmationPages, txRef \in {Absent, "tx1"},
        stored \in {Absent, "pending", "paid"} :
       ConfirmInit(page, txRef, stored)

NextConfirm ==
  \/ LoadEffect
  \/ LoadDocument
  \/ ClearCartEffect
  \/ VerifyPaymentCall
  \/ VerifyPaymentFetch
  \/ VerifyPaymentJson
  \/ SaveEffect

SpecConfirm == InitConfirm /\ [][NextConfirm]_vars

\* C16: on the three confirmation pages clearCart is called only by a
\* verifyPayment whose endpoint answered OK with success and data.status
\* 'success', or when the URL has no txRef and the loaded booking or order has
\* status 'paid'; a verification that ends failed, pending or in an error does
\* not call it. The items of the cart change only in a step that calls
\* clearCart, which empties them and removes the saved cart.
C16_ClearCartOnlyWhenPaid ==
  [][LET finished == vp'.finished = vp.finished + 1
         verified == /\ finished /\ ~vp'.last.threw /\ vp'.last.ok
                     /\ vp'.last.result.success /\ vp'.last.result.hasData
                     /\ vp'.last.result.status = "success"
         called == vp'.cleared # vp.cleared
     IN /\ called
             => \/ verified
                \/ ~finished /\ vp.txRef = Absent /\ vp.doc = "paid"
        /\ finished /\ ~verified => ~called
        /\ finished /\ vp'.paymentStatus # "success" => ~called
        /\ called => cart'.items = <<>> /\ cart'.storage = NoEntry
        /\ ~called => cart'.items = cart.items]_vars

\* C16 witness: a page with a txRef whose order is stored and loaded as paid
\* verified the payment, the endpoint answered OK with data.status 'failed',
\* clearCart was not called and the cart still holds its line.
C16_Witness ==
  /\ vp.finished > 0 /\ vp.txRef = "tx1" /\ vp.doc = "paid"
  /\ vp.last.ok /\ ~vp.last.threw
  /\ vp.last.result.success /\ vp.last.result.hasData /\ vp.last.result.status = "failed"
  /\ vp.cleared = 0 /\ vp.page = "OrderConfirmedPageClient"
  /\ Len(cart.items) = 1 /\ ~cart.dirty /\ cart.storage.kind = "json"

\* C17: the verifyPayment call that finished last left the payment status
\* 'failed' only for an OK answer with success and data.status 'failed', and
\* 'success' only for one with data.status 'success'; an answer that is not
\* OK, success false, missing data, another data.status or a thrown error
\* left it 'pending', and after an answer that is not OK or a thrown error
\* paymentError is a non-empty message.
C17_VerifyPaymentStatus ==
  vp.finished > 0
    => LET accepted == /\ ~vp.last.threw /\ vp.last.ok
                       /\ vp.last.result.success /\ vp.last.result.hasData
       IN /\ vp.paymentStatus = "failed" <=> (accepted /\ vp.last.result.status = "failed")
          /\ vp.paymentStatus = "success" <=> (accepted /\ vp.last.result.status = "success")
          /\ (~accepted \/ vp.last.result.status \notin {"success", "failed"})
               => vp.paymentStatus = "pending"
          /\ (vp.last.threw \/ ~vp.last.ok) => vp.paymentError \notin {Absent, ""}

\* C17 witness: the endpoint answered with a status that is not OK and a
\* body that says success with data.status 'failed': the payment status is
\* 'pending' and the body's message is the error.
C17_Witness ==
  /\ vp.finished > 0 /\ ~vp.last.threw /\ ~vp.last.ok
  /\ vp.last.result.success /\ vp.last.result.hasData /\ vp.last.result.status = "failed"
  /\ vp.last.result.message = "m"
  /\ vp.paymentStatus = "pending" /\ vp.paymentError = "m"

\* ------------------------------------------------------- login page claim
\* One visit of the login page, from the admin area or not, by an admin, a
\* staff member or a customer, who is logged in already or not and signs in
\* with a password or with Google.
InitLogin ==
  /\ OrdersInit("pending") /\ CoreInit /\ DerivedIdle /\ CartIdle /\ ConfirmIdle /\ ReviewIdle
  /\ \E fromAdmin \in BOOLEAN, returnUrl \in ReturnUrls, role \in UserRoles,
        emailVerified \in BOOLEAN, loggedIn \in BOOLEAN,
        production \in BOOLEAN, siteKey \in BOOLEAN, grecaptcha \in BOOLEAN :
       /\ grecaptcha => siteKey
       /\ LoginInit(fromAdmin, returnUrl, [role |-> role, emailVerified |-> emailVerified],
                    loggedIn, [production |-> production, siteKey |-> siteKey], grecaptcha)

NextLogin ==
  \/ AuthUserChanged
  \/ AuthRoleChanged
  \/ RedirectEffect
  \/ RateLimitEffect
  \/ RecaptchaScriptLoaded
  \/ HandleRecaptchaVerify
  \/ HandleRecaptchaError
  \/ HandleSubmitCall
  \/ HandleSubmitRecaptcha
  \/ HandleSubmitSignIn
  \/ HandleSubmitSendEmail
  \/ AdminTimer
  \/ HandleGoogleSignInCall
  \/ HandleGoogleSignIn

SpecLogin == InitLogin /\ [][NextLogin]_vars

\* C18: a user who came to the login page with from=admin is sent to /admin
\* only if the user's role is ADMIN or STAFF, whether by the redirect effect
\* for a logged-in user or by handleSubmit and its delayed redirect; a user
\* with another role stays on the login page.
C18_AdminOnlyForAdminOrStaff ==
  lg.fromAdmin /\ lg.location = "/admin" => lg.acct.role \in {"ADMIN", "STAFF"}

\* ------------------------------------------------------ review modal claim
\* The review modal of a signed-in user (with an e-mail address and a
\* display name or without) or a guest, with any reviews already stored: the
\* parent opens and closes it and changes its item, the form is filled in,
\* the checks return in any order, the form is submitted.
InitReview ==
  /\ OrdersInit("pending") /\ CoreInit /\ DerivedIdle /\ CartIdle /\ ConfirmIdle /\ LoginIdle
  /\ \E user \in {Absent, "u1"}, email \in {"", "a@x.io"}, displayName \in UserNames,
        reviews \in SUBSET ReviewKeys :
       /\ user = Absent => email = "" /\ displayName = ""
       /\ ReviewInit(user, email, displayName, reviews)

NextReview ==
  \/ \E i \in ReviewItems : OpenModal(i)
  \/ CloseModal
  \/ \E i \in ReviewItems : ChangeItem(i)
  \/ \E c \in Comments : TypeComment(c)
  \/ \E n \in UserNames : TypeName(n)
  \/ \E e \in Emails : TypeEmail(e)
  \/ CheckExistingReviewReturns
  \/ HandleSubmit
  \/ CreateReviewReturns
  \/ CloseEffect

SpecReview == InitReview /\ [][NextReview]_vars

\* C19: ReviewFormModal calls createReview for no reviewer for whom
\* hasUserReviewed reports a review of the current item, business and review
\* type, also when the form is submitted while the check is in flight or
\* after the check's inputs changed.
C19_NoReviewAfterReview ==
  \A c \in rv.calls : ~c.reviewed

\* ------------------------------- getDerivedTransactions racing updateOrder
\* The status changes the racing updateOrder calls ask for.
RaceOrderUpdates ==
  {[NoUpdates EXCEPT !.status = s] : s \in {"processing", "shipped", "completed"}}

\* One getDerivedTransactions call over two paid-for orders and a paid
\* booking, while updateOrder calls change the orders' statuses.
InitDerivedRace ==
  /\ CoreInit /\ CartIdle /\ ConfirmIdle /\ LoginIdle /\ ReviewIdle
  /\ \E s \in {"pending", "paid", "processing"}, limit \in Limits :
       /\ DerivedOrdersInit(s, "shipped")
       /\ DerivedInit(
            [id \in OrderIds |->
               [payment |-> TRUE, paidAt |-> 2, createdAt |-> IF id = "o1" THEN 2 ELSE 1,
                refundedAt |-> 0]],
            [id \in BookingIds |->
               IF id = "b1"
                 THEN [exists |-> TRUE, status |-> "paid", payment |-> TRUE, paidAt |-> 3,
                       createdAt |-> 3, refundedAt |-> 0]
                 ELSE NoBooking],
            [NoOptions EXCEPT !.limit = limit])

NextDerivedRace ==
  \/ GetDerivedTransactionsCall
  \/ DerivedOrdersQuery
  \/ DerivedBookingsQuery
  \/ \E c \in OrderSlots :
       \/ MayStart(c) /\ \E id \in OrderIds, upd \in RaceOrderUpdates : UpdateOrderCall(c, id, upd)
       \/ UpdateOrderGet(c)
       \/ UpdateOrderWrite(c)

SpecDerivedRace == InitDerivedRace /\ [][NextDerivedRace]_vars

\* C20: in one result of getDerivedTransactions every order and every
\* booking has at most one entry (the ids order_<id> and booking_<id> are
\* unique), also when updateOrder moves an order to its next status between
\* two of the function's per-status queries.
C20_OneEntryPerDocument ==
  \A i, j \in DOMAIN dt.result : dt.result[i].id = dt.result[j].id => i = j

====
